---- MODULE Spec2Model ----
(***************************************************************************)
(* The automation runner engine of src/AutomationsPage/automations:         *)
(* MotionLightAutomationRunner (MotionLightAutomation.js) and               *)
(* AlarmAutoArmRunner (AlarmAutoArmComponent.js).                           *)
(*                                                                         *)
(* One runner object is modelled; `kind` says which class it is.  The       *)
(* JavaScript event loop runs one callback at a time, and an async function *)
(* gives up control at every `await`.  A callback in flight is a task: a    *)
(* record holding the await it is suspended at (pc) and its locals.  Every  *)
(* action is one run-to-the-next-await segment of a callback.  setInterval  *)
(* does not wait for the promise of the previous callback, so several poll  *)
(* callbacks can be in flight at once.                                      *)
(***************************************************************************)
EXTENDS Integers, Sequences, FiniteSets, Bags, TLC

VARIABLES
    kind,                 \* "motion" | "alarm": the class of the runner
    settings,             \* automation.settings: which entity ids are configured
    profile,              \* which bounded family of device answers is explored
    isRunning,            \* this.isRunning
    pollInterval,         \* this.pollInterval / this.checkInterval (0 = null)
    intervals,            \* interval timers alive in the event loop
    timeoutId,            \* this.timeoutId (0 = null)
    timers,               \* one-shot timers alive in the event loop
    nextId,               \* next timer id handed out by setInterval/setTimeout
    lastMotionState,      \* this.lastMotionState ("null" = null)
    lastAlarmState,       \* this.lastAlarmState ("null" = null)
    lastArmAttempt,       \* this.lastArmAttempt (-1 = null), minutes
    stateHistory,         \* this.stateHistory
    errorCount,           \* this.errorCount
    consecutiveSuccesses, \* this.consecutiveSuccesses
    lastSuccessfulPoll,   \* this.lastSuccessfulPoll is set
    tasks,                \* callbacks in flight, a bag of [pc, cur, k]
    clock,                \* the wall clock, in minutes
    eventLog,             \* the event log sink, as written by logEvent
    triggerCount,         \* the automation's trigger_count
    observed,             \* history variable: answers of getHAEntityState
    calls,                \* history variable: callHAService invocations
    starts,               \* history variable: number of effective start() calls
    callFailures,         \* history variable: number of failed service calls
    motionSeenDuring,     \* history variable: countdowns a motion poll met unfinished
    debugInfo             \* the snapshot the last getDebugInfo() returned to its caller

vars == <<kind, settings, profile, isRunning, pollInterval, intervals, timeoutId,
          timers, nextId, lastMotionState, lastAlarmState, lastArmAttempt,
          stateHistory, errorCount, consecutiveSuccesses, lastSuccessfulPoll,
          tasks, clock, eventLog, triggerCount, observed, calls, starts,
          callFailures, motionSeenDuring, debugInfo>>

cfgVars == <<kind, settings, profile>>
alarmVars == <<lastAlarmState, lastArmAttempt, clock>>

(***************************************************************************)
(* Bounds of the exploration.  A profile is one bounded family of runs:     *)
(* how many state reads may succeed and fail, how many service calls may    *)
(* fail, how many poll callbacks may be in flight at once, how often the    *)
(* runner is started, and which values the device may report.               *)
(***************************************************************************)
MaxInFlight == 2       \* poll callbacks in flight at once
MaxStarts == 2         \* effective start() calls, profile "restart"
MaxOkChanges == 4      \* successful state reads, profile "changes"
MaxOkValues == 5       \* successful state reads, profile "values"
MaxOkFaults == 3       \* successful state reads, profile "faults"
MaxOkRestart == 2      \* successful state reads, profile "restart"
MaxOkErrors == 1       \* successful state reads, profile "errors"
MaxFailErrors == 11    \* failed state reads, profile "errors"
MaxFailFaults == 1     \* failed state reads, profiles "faults" and "restart"
MaxCallFailures == 1   \* failed service calls, profile "faults"
MaxOkWindow == 3       \* successful state reads, profile "window"
MaxTicksWindow == 1    \* minutes the clock advances, profile "window"
MaxOkArm == 4          \* successful state reads, profile "arm"
MaxTicksArm == 0       \* minutes the clock advances, profile "arm"
MaxArmCallFailures == 2 \* failed service calls, profile "arm"
MaxOkVerify == 3       \* successful state reads, profile "verify"
MaxOkAlarmRestart == 2 \* successful state reads, alarm profile "restart"
MaxOkCooldown == 4     \* successful state reads, profile "cooldown"
MaxTicksCooldown == 5  \* minutes the clock advances, profile "cooldown"
MaxOkClock == 3        \* successful state reads, profiles "clock"
MaxOkStop == 3         \* successful state reads, alarm profile "stop"
MaxStartsRing == 11    \* effective start() calls, profiles "ring"
MaxStartsDebug == 2    \* effective start() calls, profiles "debug"

Configured == {[motion_entity |-> TRUE, light_entity |-> TRUE]}
Unconfigured == {[motion_entity |-> TRUE, light_entity |-> FALSE],
                 [motion_entity |-> FALSE, light_entity |-> TRUE]}

MotionProfiles ==
    { [name |-> "changes", ok |-> MaxOkChanges, fail |-> 0, inflight |-> MaxInFlight,
       starts |-> 1, stops |-> FALSE, callFail |-> 0, vals |-> {"off", "on"}, cfg |-> Configured, kind |-> "motion", t0 |-> 0, ticks |-> 0, serial |-> FALSE, sink |-> "up"],
      [name |-> "values", ok |-> MaxOkValues, fail |-> 0, inflight |-> 1,
       starts |-> 1, stops |-> FALSE, callFail |-> 0, vals |-> {"off", "on", "unavailable"}, cfg |-> Configured, kind |-> "motion", t0 |-> 0, ticks |-> 0, serial |-> FALSE, sink |-> "up"],
      [name |-> "faults", ok |-> MaxOkFaults, fail |-> MaxFailFaults, inflight |-> 1,
       starts |-> 1, stops |-> FALSE, callFail |-> MaxCallFailures, vals |-> {"off", "on"}, cfg |-> Configured, kind |-> "motion", t0 |-> 0, ticks |-> 0, serial |-> FALSE, sink |-> "up"],
      [name |-> "restart", ok |-> MaxOkRestart, fail |-> MaxFailFaults, inflight |-> 1,
       starts |-> MaxStarts, stops |-> TRUE, callFail |-> 0, vals |-> {"off", "on"}, cfg |-> Configured, kind |-> "motion", t0 |-> 0, ticks |-> 0, serial |-> FALSE, sink |-> "up"],
      [name |-> "errors", ok |-> MaxOkErrors, fail |-> MaxFailErrors, inflight |-> MaxInFlight,
       starts |-> 1, stops |-> FALSE, callFail |-> 0, vals |-> {"off"}, cfg |-> Configured \cup Unconfigured, kind |-> "motion", t0 |-> 0, ticks |-> 0, serial |-> FALSE, sink |-> "up"] }

(***************************************************************************)
(* Program constants.                                                       *)
(***************************************************************************)
maxErrors == 10
ArmCooldown == 5        \* minutes
ArmStartHour == 21
ArmEndHour == 7
MotionHistoryCap == 50
AlarmHistoryCap == 100
MotionDebugHistory == 10
AlarmDebugHistory == 15

MotionVals == {"off", "on", "unavailable"}
Fail == "fail"
ConfigError == "config_error"

\* 20:59 and 06:59, the minutes before the arming window opens and closes
WindowEdges == {20 * 60 + 59, 6 * 60 + 59}

AlarmProfiles ==
    { [name |-> "window", ok |-> MaxOkWindow, fail |-> 0, inflight |-> 1,
       starts |-> 1, stops |-> FALSE, callFail |-> 0, vals |-> {"disarmed", "armed_away"},
       cfg |-> Configured, kind |-> "alarm", t0 |-> t, ticks |-> MaxTicksWindow, serial |-> FALSE, sink |-> "up"] : t \in WindowEdges }
    \cup
    { [name |-> "arm", ok |-> MaxOkArm, fail |-> 0, inflight |-> 1,
       starts |-> 1, stops |-> FALSE, callFail |-> MaxArmCallFailures,
       vals |-> {"disarmed", "armed_away"},
       cfg |-> Configured, kind |-> "alarm", t0 |-> 22 * 60, ticks |-> MaxTicksArm, serial |-> FALSE, sink |-> "up"],
      [name |-> "verify", ok |-> MaxOkVerify, fail |-> MaxFailFaults, inflight |-> 1,
       starts |-> 1, stops |-> FALSE, callFail |-> 0,
       vals |-> {"disarmed", "armed_home", "pending"},
       cfg |-> Configured, kind |-> "alarm", t0 |-> 22 * 60, ticks |-> 0, serial |-> FALSE, sink |-> "up"],
      [name |-> "errors", ok |-> MaxOkErrors, fail |-> MaxFailErrors, inflight |-> 1,
       starts |-> 1, stops |-> FALSE, callFail |-> 0, vals |-> {"disarmed"},
       cfg |-> Configured, kind |-> "alarm", t0 |-> 12 * 60, ticks |-> 0, serial |-> FALSE, sink |-> "up"],
      [name |-> "restart", ok |-> MaxOkAlarmRestart, fail |-> 0, inflight |-> 1,
       starts |-> MaxStarts, stops |-> TRUE, callFail |-> 0, vals |-> {"disarmed"},
       cfg |-> Configured, kind |-> "alarm", t0 |-> 12 * 60, ticks |-> 0, serial |-> FALSE, sink |-> "up"],
      [name |-> "cooldown", ok |-> MaxOkCooldown, fail |-> 0, inflight |-> 1,
       starts |-> 1, stops |-> FALSE, callFail |-> 0, vals |-> {"disarmed"},
       cfg |-> Configured, kind |-> "alarm", t0 |-> 22 * 60, ticks |-> MaxTicksCooldown, serial |-> FALSE, sink |-> "up"],
      [name |-> "stop", ok |-> MaxOkStop, fail |-> 0, inflight |-> 1,
       starts |-> 1, stops |-> TRUE, callFail |-> 0, vals |-> {"disarmed"},
       cfg |-> Configured, kind |-> "alarm", t0 |-> 22 * 60, ticks |-> 0, serial |-> FALSE, sink |-> "up"] }

\* one runner for every minute of the day, started at that minute
ClockProfiles ==
    { [name |-> "clock", ok |-> MaxOkClock, fail |-> 0, inflight |-> 1,
       starts |-> 1, stops |-> FALSE, callFail |-> 0, vals |-> {"disarmed"},
       cfg |-> Configured, kind |-> "alarm", t0 |-> m, ticks |-> 0, serial |-> FALSE, sink |-> "up"] : m \in 0 .. (24 * 60 - 1) }

\* runs that fill the history ring: every state read fails or the entities
\* are not configured, each run ends in the fatal stop and the runner is
\* started again; every call is answered before the next timer or start()
RingProfiles ==
    { [name |-> "ring", ok |-> 0, fail |-> (maxErrors + 1) * MaxStartsRing, inflight |-> 1,
       starts |-> MaxStartsRing, stops |-> FALSE, callFail |-> 0, vals |-> {},
       cfg |-> Unconfigured, kind |-> k, t0 |-> 12 * 60, ticks |-> 0, serial |-> TRUE, sink |-> "up"] : k \in {"motion", "alarm"} }

\* state reads answered in a run whose event log sink is down
MaxOkSink == 3

\* runs of failed polls, and a short run of answered polls, while the event
\* log sink is down: every logEvent rejects
SinkProfiles ==
    { [name |-> "sink", ok |-> 0, fail |-> maxErrors + 1, inflight |-> 1,
       starts |-> 1, stops |-> TRUE, callFail |-> 0, vals |-> {},
       cfg |-> c, kind |-> k, t0 |-> 12 * 60, ticks |-> 0, serial |-> FALSE, sink |-> "down"] :
         k \in {"motion", "alarm"}, c \in {Configured, Unconfigured} }
    \cup
    { [name |-> "sinkpoll", ok |-> MaxOkSink, fail |-> 0, inflight |-> 1,
       starts |-> 1, stops |-> FALSE, callFail |-> 0, vals |-> {"on", "off"},
       cfg |-> Configured, kind |-> "motion", t0 |-> 12 * 60, ticks |-> 0,
       serial |-> FALSE, sink |-> "down"] }

\* runs of failed polls, restarted once, watched through getDebugInfo
DebugProfiles ==
    { [name |-> "debug", ok |-> 0, fail |-> (maxErrors + 1) * MaxStartsDebug, inflight |-> 1,
       starts |-> MaxStartsDebug, stops |-> FALSE, callFail |-> 0, vals |-> {},
       cfg |-> Unconfigured, kind |-> k, t0 |-> 22 * 60, ticks |-> 0, serial |-> TRUE, sink |-> "up"] :
         k \in {"motion", "alarm"} }

OkBudget == profile.ok
FailBudget == profile.fail

OkUsed == Cardinality({i \in DOMAIN observed : observed[i].val \notin {Fail, ConfigError}})
FailUsed == Cardinality({i \in DOMAIN observed : observed[i].val = Fail})

\* A state read may answer r within the bounds of the profile.
CanAnswer(r) ==
    IF r = Fail THEN FailUsed < FailBudget ELSE OkUsed < OkBudget /\ r \in profile.vals

(***************************************************************************)
(* Tasks.                                                                   *)
(***************************************************************************)
Task(pc, cur, k) == [pc |-> pc, cur |-> cur, k |-> k, by |-> ""]
\* a callback of the alarm runner: k is its `now`, by is "tick" or "start"
ATask(pc, cur, now, by) == [pc |-> pc, cur |-> cur, k |-> now, by |-> by]
One(t) == SetToBag({t})
InFlight == BagToSet(tasks)
PollPcs == {"p_fatal_log", "p_fatal_stop_log", "p_general_log", "p_fetch",
            "p_fetcherr_log", "p_turnon", "p_on_log_ok", "p_on_log_err",
            "p_trigger", "p_countdown_log"}
PollsInFlight ==
    BagCardinality([t \in {u \in InFlight : u.pc \in PollPcs \/ u.by = "tick"} |-> tasks[t]])

(***************************************************************************)
(* Collaborators.                                                           *)
(***************************************************************************)
\* automationService.logEvent(id, type, message): append to the event log
logEvent(log, type, msg) == Append(log, [type |-> type, msg |-> msg])

\* automationService.updateAutomationTriggerCount(id)
\* logEvent returns when the sink has stored the event, and rejects otherwise
LogReturns == profile.sink = "up"

updateAutomationTriggerCount(n) == n + 1

\* a full ring keeps its oldest entries and drops the new one
addStateHistory_keepfirst(h, motionState, action) ==
    LET h2 == Append(h, [motionState |-> motionState, action |-> action])
    IN  IF Len(h2) > MotionHistoryCap THEN SubSeq(h2, 1, MotionHistoryCap) ELSE h2

\* MotionLightAutomationRunner.addStateHistory
addStateHistory(h, motionState, action) ==
    LET h2 == Append(h, [motionState |-> motionState, action |-> action])
    IN  IF Len(h2) > MotionHistoryCap
        THEN SubSeq(h2, Len(h2) - MotionHistoryCap + 1, Len(h2))
        ELSE h2

\* the ghost record of a callHAService invocation
Call(svc, k) == [svc |-> svc, k |-> k]

\* the state after construction, for a runner of one of the profiles P
InitFrom(P) ==
    /\ profile \in P
    /\ settings \in profile.cfg
    /\ kind = profile.kind
    /\ isRunning = FALSE
    /\ pollInterval = 0
    /\ intervals = {}
    /\ timeoutId = 0
    /\ timers = {}
    /\ nextId = 1
    /\ lastMotionState = "null"
    /\ lastAlarmState = "null"
    /\ lastArmAttempt = -1
    /\ stateHistory = <<>>
    /\ errorCount = 0
    /\ consecutiveSuccesses = 0
    /\ lastSuccessfulPoll = FALSE
    /\ tasks = EmptyBag
    /\ clock = profile.t0
    /\ eventLog = <<>>
    /\ triggerCount = 0
    /\ observed = <<>>
    /\ calls = <<>>
    /\ starts = 0
    /\ callFailures = 0
    /\ motionSeenDuring = {}
    /\ debugInfo = [taken |-> FALSE]

Init == InitFrom(MotionProfiles \cup AlarmProfiles)

(***************************************************************************)
(* MotionLightAutomationRunner                                              *)
(***************************************************************************)
Spawn(t) == tasks' = tasks (+) One(t)
Become(t, t2) == tasks' = (tasks (-) One(t)) (+) One(t2)
Finish(t) == tasks' = tasks (-) One(t)

\* the answers a service call can give
CallResults == {"ok", "http500", "timeout"}
CanReturn(res) == res = "ok" \/ callFailures < profile.callFail

\* level-triggered instead of edge-triggered: every read of "on" counts as motion
Transition_level(last, cur) ==
    IF last = "null" THEN "initialized"
    ELSE IF cur = "on" THEN "motion_detected"
    ELSE IF last = cur THEN "none"
    ELSE IF last = "on" /\ cur = "off" THEN "motion_stopped"
    ELSE "other"

\* any change to "on" counts as motion and any change to "off" as its end
Transition_anyedge(last, cur) ==
    IF last = "null" THEN "initialized"
    ELSE IF last = cur THEN "none"
    ELSE IF cur = "on" THEN "motion_detected"
    ELSE IF cur = "off" THEN "motion_stopped"
    ELSE "other"

\* the first read is not set apart: an unset state is taken for "off"
Transition_noinit(last, cur) ==
    IF last = cur THEN "none"
    ELSE IF last \in {"off", "null"} /\ cur = "on" THEN "motion_detected"
    ELSE IF last = "on" /\ cur = "off" THEN "motion_stopped"
    ELSE "other"

\* checkMotionState, lines 492-551: what a successful read leads to
Transition(last, cur) ==
    IF last = "null" THEN "initialized"
    ELSE IF last = cur THEN "none"
    ELSE IF last = "off" /\ cur = "on" THEN "motion_detected"
    ELSE IF last = "on" /\ cur = "off" THEN "motion_stopped"
    ELSE "other"

\* the error counter is not reset by a successful read
PollSucceeded_noreset(ec, cs) == [errorCount |-> ec, consecutiveSuccesses |-> cs + 1]

\* checkMotionState, lines 464-465: the counters after a successful read
PollSucceeded(ec, cs) == [errorCount |-> 0, consecutiveSuccesses |-> cs + 1]

\* the error counter is not advanced by a failed read
PollFailed_nocount(ec, cs) == [errorCount |-> ec, consecutiveSuccesses |-> 0]

\* checkMotionState, lines 469-470: the counters after a failed read
PollFailed(ec, cs) == [errorCount |-> ec + 1, consecutiveSuccesses |-> 0]

\* the re-query's answer is not looked at: the light is turned off on stale state
DeferredOutcome_stale(r) == IF r = Fail THEN "timeout_error" ELSE "turn_off"

\* a re-query that fails is not told from one that answers "off"
DeferredOutcome_blind(r) ==
    IF r \in {Fail, "off"} THEN "turn_off" ELSE "countdown_cancelled"

\* the deferred callback, lines 561-610: what the answer of its re-query leads to
DeferredOutcome(r) ==
    IF r = Fail THEN "timeout_error"
    ELSE IF r = "off" THEN "turn_off"
    ELSE "countdown_cancelled"

\* checkMotionState, line 479: which failed reads are written to the event log
ShouldLogError(n) == n = 1 \/ n % 5 = 0

\* countdowns whose deferred check has not yet decided
UnfinishedCountdowns == timers \cup {t.k : t \in {u \in InFlight : u.pc = "d_requery"}}

\* start() on a runner that is already running returns at once
StartReturnsEarly_never == FALSE
StartReturnsEarly == isRunning

\* stop() on a runner that is not running returns at once
StopReturnsEarly_never == FALSE
StopReturnsEarly == ~isRunning

\* start(), up to the await inside initializeState
Start ==
    /\ kind = "motion"
    /\ IF StartReturnsEarly THEN UNCHANGED vars
       ELSE /\ starts < profile.starts
            /\ profile.serial => tasks = EmptyBag
            /\ starts' = starts + 1
            /\ isRunning' = TRUE
            /\ errorCount' = 0
            /\ pollInterval' = nextId
            /\ intervals' = intervals \cup {nextId}
            /\ nextId' = nextId + 1
            /\ IF settings.motion_entity
               THEN /\ Spawn(Task("s_init", "", 0))
                    /\ UNCHANGED stateHistory
               ELSE /\ Spawn(Task("s_initerr_log", "", 0))
                    /\ stateHistory' = addStateHistory(stateHistory, "error", "initialization_failed")
            /\ UNCHANGED <<cfgVars, debugInfo, alarmVars, timeoutId, timers, lastMotionState,
                           consecutiveSuccesses, lastSuccessfulPoll, eventLog,
                           triggerCount, observed, calls, callFailures, motionSeenDuring>>

\* initializeState resumes from getHAEntityState
StartInitialized ==
    /\ kind = "motion"
    /\ \E t \in InFlight : \E r \in MotionVals \cup {Fail} :
        /\ t.pc = "s_init"
        /\ CanAnswer(r)
        /\ observed' = Append(observed, [src |-> "init", val |-> r])
        /\ IF r = Fail
           THEN /\ stateHistory' = addStateHistory(stateHistory, "error", "initialization_failed")
                /\ Become(t, Task("s_initerr_log", "", 0))
                /\ UNCHANGED <<lastMotionState, lastSuccessfulPoll>>
           ELSE /\ lastMotionState' = r
                /\ lastSuccessfulPoll' = TRUE
                /\ stateHistory' = addStateHistory(stateHistory, r, "initialized")
                /\ Become(t, Task("s_started_log", "", 0))
        /\ UNCHANGED <<cfgVars, debugInfo, alarmVars, isRunning, pollInterval, intervals, timeoutId,
                       timers, nextId, errorCount, consecutiveSuccesses, eventLog,
                       triggerCount, calls, starts, callFailures, motionSeenDuring>>

\* initializeState resumes from logEvent('error'), start() goes on to logEvent('started')
StartInitErrorLogged ==
    /\ kind = "motion"
    /\ \E t \in InFlight :
        /\ t.pc = "s_initerr_log"
        /\ LogReturns
        /\ eventLog' = logEvent(eventLog, "error", "initialize")
        /\ Become(t, Task("s_started_log", "", 0))
    /\ UNCHANGED <<cfgVars, debugInfo, alarmVars, isRunning, pollInterval, intervals, timeoutId,
                   timers, nextId, lastMotionState, stateHistory, errorCount,
                   consecutiveSuccesses, lastSuccessfulPoll, triggerCount, observed,
                   calls, starts, callFailures, motionSeenDuring>>

\* start() resumes from logEvent('started') and returns
StartLogged ==
    /\ \E t \in InFlight :
        /\ t.pc \in {"s_started_log", "as_started_log"}
        /\ LogReturns
        /\ eventLog' = logEvent(eventLog, "started", "started")
        /\ Finish(t)
    /\ UNCHANGED <<cfgVars, debugInfo, alarmVars, isRunning, pollInterval, intervals, timeoutId,
                   timers, nextId, lastMotionState, stateHistory, errorCount,
                   consecutiveSuccesses, lastSuccessfulPoll, triggerCount, observed,
                   calls, starts, callFailures, motionSeenDuring>>

\* stop(), up to its await: the fields it assigns when the runner is running
StopIntervals == IF pollInterval # 0 THEN intervals \ {pollInterval} ELSE intervals
StopTimers == IF timeoutId # 0 THEN timers \ {timeoutId} ELSE timers

\* stop() called from outside
Stop ==
    /\ kind = "motion"
    /\ profile.stops
    /\ IF StopReturnsEarly THEN UNCHANGED vars
       ELSE /\ isRunning' = FALSE
            /\ intervals' = StopIntervals
            /\ pollInterval' = 0
            /\ timers' = StopTimers
            /\ timeoutId' = 0
            /\ Spawn(Task("x_stop_log", "", 0))
            /\ UNCHANGED <<cfgVars, debugInfo, alarmVars, nextId, lastMotionState, stateHistory,
                           errorCount, consecutiveSuccesses, lastSuccessfulPoll, eventLog,
                           triggerCount, observed, calls, starts, callFailures,
                           motionSeenDuring>>

\* stop() resumes from logEvent('stopped') and returns
StopLogged ==
    /\ \E t \in InFlight :
        /\ t.pc \in {"x_stop_log", "p_fatal_stop_log"}
        /\ t.by = ""
        /\ LogReturns
        /\ eventLog' = logEvent(eventLog, "stopped", "stopped")
        /\ Finish(t)
    /\ UNCHANGED <<cfgVars, debugInfo, alarmVars, isRunning, pollInterval, intervals, timeoutId,
                   timers, nextId, lastMotionState, stateHistory, errorCount,
                   consecutiveSuccesses, lastSuccessfulPoll, triggerCount, observed,
                   calls, starts, callFailures, motionSeenDuring>>

\* state reads answered or in flight on behalf of polls stay within the profile
ReadPcs == {"p_fetch", "s_init", "d_requery", "as_init", "c_fetch", "a_prearm", "a_details", "v_fetch"}
ReadsInFlight == BagCardinality([t \in {u \in InFlight : u.pc \in ReadPcs} |-> tasks[t]])
MayRead == OkUsed + FailUsed + ReadsInFlight < OkBudget + FailBudget

\* the interval fires: checkMotionState up to its first await
PollTick ==
    /\ kind = "motion"
    /\ intervals # {}
    /\ PollsInFlight < profile.inflight
    /\ profile.serial => tasks = EmptyBag
    /\ IF errorCount >= maxErrors
       THEN /\ Spawn(Task("p_fatal_log", "", 0))
            /\ UNCHANGED <<errorCount, consecutiveSuccesses, stateHistory, observed>>
       ELSE IF ~settings.motion_entity \/ ~settings.light_entity
       THEN /\ errorCount' = errorCount + 1
            /\ consecutiveSuccesses' = 0
            /\ stateHistory' = addStateHistory(stateHistory, "error", "general_error")
            /\ observed' = Append(observed, [src |-> "poll", val |-> ConfigError])
            /\ Spawn(Task("p_general_log", "", 0))
       ELSE /\ MayRead
            /\ Spawn(Task("p_fetch", "", 0))
            /\ UNCHANGED <<errorCount, consecutiveSuccesses, stateHistory, observed>>
    /\ UNCHANGED <<cfgVars, debugInfo, alarmVars, isRunning, pollInterval, intervals, timeoutId,
                   timers, nextId, lastMotionState, lastSuccessfulPoll, eventLog,
                   triggerCount, calls, starts, callFailures, motionSeenDuring>>

\* checkMotionState resumes from logEvent('error', stopped due to errors) and calls stop()
PollFatalLogged ==
    /\ kind = "motion"
    /\ \E t \in InFlight :
        /\ t.pc = "p_fatal_log"
        /\ LogReturns
        /\ eventLog' = logEvent(eventLog, "error", "fatal")
        /\ IF StopReturnsEarly
           THEN /\ Finish(t)
                /\ UNCHANGED <<isRunning, intervals, pollInterval, timers, timeoutId>>
           ELSE /\ isRunning' = FALSE
                /\ intervals' = StopIntervals
                /\ pollInterval' = 0
                /\ timers' = StopTimers
                /\ timeoutId' = 0
                /\ Become(t, Task("p_fatal_stop_log", "", 0))
    /\ UNCHANGED <<cfgVars, debugInfo, alarmVars, nextId, lastMotionState, stateHistory, errorCount,
                   consecutiveSuccesses, lastSuccessfulPoll, triggerCount, observed,
                   calls, starts, callFailures, motionSeenDuring>>

\* checkMotionState: getHAEntityState of the motion entity rejects (lines 468-487)
PollFetchFailed ==
    /\ kind = "motion"
    /\ \E t \in InFlight :
        /\ t.pc = "p_fetch"
        /\ CanAnswer(Fail)
        /\ observed' = Append(observed, [src |-> "poll", val |-> Fail])
        /\ errorCount' = PollFailed(errorCount, consecutiveSuccesses).errorCount
        /\ consecutiveSuccesses' = PollFailed(errorCount, consecutiveSuccesses).consecutiveSuccesses
        /\ stateHistory' = addStateHistory(stateHistory, "error", "motion_state_error")
        /\ IF ShouldLogError(errorCount')
           THEN Become(t, Task("p_fetcherr_log", "", 0))
           ELSE Finish(t)
    /\ UNCHANGED <<cfgVars, debugInfo, alarmVars, isRunning, pollInterval, intervals, timeoutId,
                   timers, nextId, lastMotionState, lastSuccessfulPoll, eventLog,
                   triggerCount, calls, starts, callFailures, motionSeenDuring>>

\* checkMotionState: getHAEntityState answers r (lines 458-467 and 489-556)
PollFetched ==
    /\ kind = "motion"
    /\ \E t \in InFlight : \E r \in MotionVals :
        LET tr == Transition(lastMotionState, r)
            cancel == tr = "motion_detected" /\ timeoutId # 0
            h1 == addStateHistory(stateHistory, r, "motion_detected")
        IN
        /\ t.pc = "p_fetch"
        /\ CanAnswer(r)
        /\ observed' = Append(observed, [src |-> "poll", val |-> r])
        /\ errorCount' = PollSucceeded(errorCount, consecutiveSuccesses).errorCount
        /\ consecutiveSuccesses' = PollSucceeded(errorCount, consecutiveSuccesses).consecutiveSuccesses
        /\ lastSuccessfulPoll' = TRUE
        /\ lastMotionState' = IF tr \in {"initialized", "other"} THEN r ELSE lastMotionState
        /\ stateHistory' =
             CASE tr = "initialized" -> addStateHistory(stateHistory, r, "initialized")
               [] tr = "motion_detected" ->
                    IF cancel THEN addStateHistory(h1, r, "countdown_cancelled") ELSE h1
               [] tr = "motion_stopped" -> addStateHistory(stateHistory, r, "countdown_started")
               [] OTHER -> stateHistory
        /\ timers' =
             CASE cancel -> timers \ {timeoutId}
               [] tr = "motion_stopped" -> timers \cup {nextId}
               [] OTHER -> timers
        /\ timeoutId' =
             CASE tr = "motion_detected" -> 0
               [] tr = "motion_stopped" -> nextId
               [] OTHER -> timeoutId
        /\ nextId' = IF tr = "motion_stopped" THEN nextId + 1 ELSE nextId
        /\ calls' = IF tr = "motion_detected" THEN Append(calls, Call("turn_on", 0)) ELSE calls
        /\ motionSeenDuring' =
             IF tr = "motion_detected" THEN motionSeenDuring \cup UnfinishedCountdowns
             ELSE motionSeenDuring
        /\ CASE tr = "motion_detected" -> Become(t, Task("p_turnon", r, 0))
             [] tr = "motion_stopped" -> Become(t, Task("p_countdown_log", r, 0))
             [] OTHER -> Finish(t)
    /\ UNCHANGED <<cfgVars, debugInfo, alarmVars, isRunning, pollInterval, intervals, eventLog,
                   triggerCount, starts, callFailures>>

\* a rejected service call is taken for a successful one
CallFailed_never(res) == FALSE

\* the await of callHAService throws into the catch block around it
CallFailed(res) == res # "ok"

\* checkMotionState resumes from callHAService('turn_on') (lines 523-544)
TurnOnReturned ==
    /\ kind = "motion"
    /\ \E t \in InFlight : \E res \in CallResults :
        /\ t.pc = "p_turnon"
        /\ CanReturn(res)
        /\ callFailures' = IF res = "ok" THEN callFailures ELSE callFailures + 1
        /\ IF CallFailed(res)
           THEN /\ stateHistory' = addStateHistory(stateHistory, t.cur, "light_error")
                /\ Become(t, Task("p_on_log_err", t.cur, 0))
           ELSE /\ stateHistory' = addStateHistory(stateHistory, t.cur, "light_turned_on")
                /\ Become(t, Task("p_on_log_ok", t.cur, 0))
    /\ UNCHANGED <<cfgVars, debugInfo, alarmVars, isRunning, pollInterval, intervals, timeoutId,
                   timers, nextId, lastMotionState, errorCount, consecutiveSuccesses,
                   lastSuccessfulPoll, eventLog, triggerCount, observed, calls, starts,
                   motionSeenDuring>>

\* checkMotionState resumes from the logEvent after turn_on and calls updateAutomationTriggerCount
TurnOnLogged ==
    /\ kind = "motion"
    /\ \E t \in InFlight :
        /\ t.pc \in {"p_on_log_ok", "p_on_log_err"}
        /\ LogReturns
        /\ eventLog' = IF t.pc = "p_on_log_ok"
                       THEN logEvent(eventLog, "triggered", "turned_on")
                       ELSE logEvent(eventLog, "error", "turn_on_failed")
        /\ Become(t, Task("p_trigger", t.cur, 0))
    /\ UNCHANGED <<cfgVars, debugInfo, alarmVars, isRunning, pollInterval, intervals, timeoutId,
                   timers, nextId, lastMotionState, stateHistory, errorCount,
                   consecutiveSuccesses, lastSuccessfulPoll, triggerCount, observed,
                   calls, starts, callFailures, motionSeenDuring>>

\* checkMotionState resumes from updateAutomationTriggerCount, line 622, returns
TriggerCounted ==
    /\ kind = "motion"
    /\ \E t \in InFlight :
        /\ t.pc = "p_trigger"
        /\ triggerCount' = updateAutomationTriggerCount(triggerCount)
        /\ lastMotionState' = t.cur
        /\ Finish(t)
    /\ UNCHANGED <<cfgVars, debugInfo, alarmVars, isRunning, pollInterval, intervals, timeoutId,
                   timers, nextId, stateHistory, errorCount, consecutiveSuccesses,
                   lastSuccessfulPoll, eventLog, observed, calls, starts, callFailures,
                   motionSeenDuring>>

\* checkMotionState resumes from logEvent('triggered', countdown), line 622, returns
CountdownLogged ==
    /\ kind = "motion"
    /\ \E t \in InFlight :
        /\ t.pc = "p_countdown_log"
        /\ LogReturns
        /\ eventLog' = logEvent(eventLog, "triggered", "countdown")
        /\ lastMotionState' = t.cur
        /\ Finish(t)
    /\ UNCHANGED <<cfgVars, debugInfo, alarmVars, isRunning, pollInterval, intervals, timeoutId,
                   timers, nextId, stateHistory, errorCount, consecutiveSuccesses,
                   lastSuccessfulPoll, triggerCount, observed, calls, starts,
                   callFailures, motionSeenDuring>>

\* checkMotionState resumes from a logEvent('error') of a failed cycle and returns
PollErrorLogged ==
    /\ kind = "motion"
    /\ \E t \in InFlight :
        /\ t.pc \in {"p_fetcherr_log", "p_general_log"}
        /\ LogReturns
        /\ eventLog' = IF t.pc = "p_fetcherr_log"
                       THEN logEvent(eventLog, "error", "get_state")
                       ELSE logEvent(eventLog, "error", "general")
        /\ Finish(t)
    /\ UNCHANGED <<cfgVars, debugInfo, alarmVars, isRunning, pollInterval, intervals, timeoutId,
                   timers, nextId, lastMotionState, stateHistory, errorCount,
                   consecutiveSuccesses, lastSuccessfulPoll, triggerCount, observed,
                   calls, starts, callFailures, motionSeenDuring>>

\* the one-shot timer k fires: the callback of line 556 up to its await
TimerFires ==
    /\ kind = "motion"
    /\ \E k \in timers :
        /\ timers' = timers \ {k}
        /\ Spawn(Task("d_requery", "", k))
    /\ UNCHANGED <<cfgVars, debugInfo, alarmVars, isRunning, pollInterval, intervals, timeoutId,
                   nextId, lastMotionState, stateHistory, errorCount,
                   consecutiveSuccesses, lastSuccessfulPoll, eventLog, triggerCount,
                   observed, calls, starts, callFailures, motionSeenDuring>>

\* the deferred callback resumes from its re-query (lines 559-610)
DeferredRequeried ==
    /\ kind = "motion"
    /\ \E t \in InFlight : \E r \in MotionVals \cup {Fail} :
        /\ t.pc = "d_requery"
        /\ CanAnswer(r)
        /\ observed' = Append(observed, [src |-> "deferred", val |-> r])
        /\ CASE DeferredOutcome(r) = "turn_off" ->
                  /\ calls' = Append(calls, Call("turn_off", t.k))
                  /\ Become(t, Task("d_turnoff", r, t.k))
                  /\ UNCHANGED stateHistory
             [] DeferredOutcome(r) = "timeout_error" ->
                  /\ stateHistory' = addStateHistory(stateHistory, "unknown", "timeout_error")
                  /\ Become(t, Task("d_err_log", r, t.k))
                  /\ UNCHANGED calls
             [] OTHER ->
                  /\ stateHistory' = addStateHistory(stateHistory, r, "countdown_cancelled")
                  /\ Become(t, Task("d_cancel_log", r, t.k))
                  /\ UNCHANGED calls
    /\ UNCHANGED <<cfgVars, debugInfo, alarmVars, isRunning, pollInterval, intervals, timeoutId,
                   timers, nextId, lastMotionState, errorCount, consecutiveSuccesses,
                   lastSuccessfulPoll, eventLog, triggerCount, starts, callFailures,
                   motionSeenDuring>>

\* the deferred callback resumes from callHAService('turn_off') (lines 566-587)
TurnOffReturned ==
    /\ kind = "motion"
    /\ \E t \in InFlight : \E res \in CallResults :
        /\ t.pc = "d_turnoff"
        /\ CanReturn(res)
        /\ callFailures' = IF res = "ok" THEN callFailures ELSE callFailures + 1
        /\ IF CallFailed(res)
           THEN /\ stateHistory' = addStateHistory(stateHistory, "off", "light_error")
                /\ Become(t, Task("d_off_log_err", t.cur, t.k))
           ELSE /\ stateHistory' = addStateHistory(stateHistory, "off", "light_turned_off")
                /\ Become(t, Task("d_off_log_ok", t.cur, t.k))
    /\ UNCHANGED <<cfgVars, debugInfo, alarmVars, isRunning, pollInterval, intervals, timeoutId,
                   timers, nextId, lastMotionState, errorCount, consecutiveSuccesses,
                   lastSuccessfulPoll, eventLog, triggerCount, observed, calls, starts,
                   motionSeenDuring>>

\* the deferred callback resumes from its logEvent, line 611, returns
DeferredLogged ==
    /\ kind = "motion"
    /\ \E t \in InFlight :
        /\ t.pc \in {"d_off_log_ok", "d_off_log_err", "d_cancel_log", "d_err_log"}
        /\ LogReturns
        /\ eventLog' =
             CASE t.pc = "d_off_log_ok" -> logEvent(eventLog, "action_executed", "turned_off")
               [] t.pc = "d_off_log_err" -> logEvent(eventLog, "error", "turn_off_failed")
               [] t.pc = "d_cancel_log" -> logEvent(eventLog, "triggered", "cancelled")
               [] OTHER -> logEvent(eventLog, "error", "timeout")
        /\ lastMotionState' = IF t.pc = "d_cancel_log" THEN t.cur ELSE lastMotionState
        /\ timeoutId' = 0
        /\ Finish(t)
    /\ UNCHANGED <<cfgVars, debugInfo, alarmVars, isRunning, pollInterval, intervals, timers,
                   nextId, stateHistory, errorCount, consecutiveSuccesses,
                   lastSuccessfulPoll, triggerCount, observed, calls, starts,
                   callFailures, motionSeenDuring>>

NextMotion ==
    \/ Start \/ StartInitialized \/ StartInitErrorLogged \/ StartLogged
    \/ Stop \/ StopLogged
    \/ PollTick \/ PollFatalLogged \/ PollFetchFailed \/ PollFetched
    \/ TurnOnReturned \/ TurnOnLogged \/ TriggerCounted \/ CountdownLogged
    \/ PollErrorLogged
    \/ TimerFires \/ DeferredRequeried \/ TurnOffReturned \/ DeferredLogged

(***************************************************************************)
(* AlarmAutoArmRunner                                                       *)
(***************************************************************************)
AlarmVals == {"disarmed", "armed_away", "armed_home", "pending"}

\* AlarmAutoArmRunner.addStateHistory
addStateHistoryAlarm(h, action, alarmState) ==
    LET h2 == Append(h, [action |-> action, alarmState |-> alarmState])
    IN  IF Len(h2) > AlarmHistoryCap
        THEN SubSeq(h2, Len(h2) - AlarmHistoryCap + 1, Len(h2))
        ELSE h2

\* the end of the window is taken as inside it
isInArmingWindow_inclusive(now) ==
    LET currentTime == ((now % 1440) \div 60) * 60 + (now % 60)
    IN  currentTime >= ArmStartHour * 60 \/ currentTime <= ArmEndHour * 60

\* isInArmingWindow, with the clock read passed in as minutes
isInArmingWindow(now) ==
    LET hour == (now % 1440) \div 60
        minute == now % 60
        currentTime == hour * 60 + minute
        armStart == ArmStartHour * 60
        armEnd == ArmEndHour * 60
    IN  IF armStart > armEnd
        THEN currentTime >= armStart \/ currentTime < armEnd
        ELSE currentTime >= armStart /\ currentTime < armEnd

\* the window is not looked at
shouldAttemptArm_anytime(inWindow, currentState) == currentState = "disarmed"

\* checkAndArm, line 946
shouldAttemptArm(inWindow, currentState) == inWindow /\ currentState = "disarmed"

\* checkAndArm, lines 950-954: the cooldown since the last attempt has not elapsed
CooldownActive(now) ==
    lastArmAttempt # -1 /\ ArmCooldown - (now - lastArmAttempt) > 0

\* the ghost record of a service call of the alarm runner: the `now` and the
\* `currentState` of the poll cycle that issued it, and how it ended
ACall(svc, t) == [svc |-> svc, k |-> t.k, cur |-> t.cur, by |-> t.by, res |-> "pending"]

\* the ghost record of the call that the cycle t awaits gets its result
Settled(svc, t, res) ==
    LET i == CHOOSE i \in DOMAIN calls : calls[i] = ACall(svc, t)
    IN  [calls EXCEPT ![i].res = res]

\* the message of the error that callHAService rejects with, as words
ErrorMessage(res) ==
    CASE res = "http500" -> <<"HTTP", "500">>
      [] res = "timeout" -> <<"Request", "timeout">>
      [] OTHER -> <<>>

\* every failure counts as a server-side rejection
Includes500_any(message) == TRUE

\* armAlarmWithValidation, line 1051: serviceError.message.includes('500')
Includes500(message) == \E i \in DOMAIN message : message[i] = "500"

\* checkAndArm returns to its caller: start() goes on to logEvent('started')
Return(t) ==
    IF t.by = "start"
    THEN Become(t, ATask("as_started_log", "", 0, "start"))
    ELSE Finish(t)

\* checkAndArm up to its first await; t is the callback that runs it
EnterCheckAndArm(t, by) ==
    IF errorCount >= maxErrors
    THEN Become(t, ATask("c_fatal_log", "", clock, by))
    ELSE Become(t, ATask("c_fetch", "", clock, by))

\* the wall clock advances by a minute
ClockTick ==
    /\ kind = "alarm"
    /\ clock - profile.t0 < profile.ticks
    /\ clock' = clock + 1
    /\ UNCHANGED <<cfgVars, debugInfo, lastAlarmState, lastArmAttempt, isRunning, pollInterval,
                   intervals, timeoutId, timers, nextId, lastMotionState, stateHistory,
                   errorCount, consecutiveSuccesses, lastSuccessfulPoll, tasks, eventLog,
                   triggerCount, observed, calls, starts, callFailures, motionSeenDuring>>

\* start(), up to the await inside initializeState
AlarmStart ==
    /\ kind = "alarm"
    /\ IF StartReturnsEarly THEN UNCHANGED vars
       ELSE /\ starts < profile.starts
            /\ profile.serial => tasks = EmptyBag
            /\ starts' = starts + 1
            /\ isRunning' = TRUE
            /\ errorCount' = 0
            /\ pollInterval' = nextId
            /\ intervals' = intervals \cup {nextId}
            /\ nextId' = nextId + 1
            /\ Spawn(ATask("as_init", "", 0, "start"))
            /\ UNCHANGED <<cfgVars, debugInfo, alarmVars, timeoutId, timers, lastMotionState,
                           stateHistory, consecutiveSuccesses, lastSuccessfulPoll,
                           eventLog, triggerCount, observed, calls, callFailures,
                           motionSeenDuring>>

\* initializeState resumes from getHAEntityState; on success start() enters checkAndArm
AlarmStartInitialized ==
    /\ kind = "alarm"
    /\ \E t \in InFlight : \E r \in AlarmVals \cup {Fail} :
        /\ t.pc = "as_init"
        /\ CanAnswer(r)
        /\ observed' = Append(observed, [src |-> "init", val |-> r])
        /\ IF r = Fail
           THEN /\ stateHistory' = addStateHistoryAlarm(stateHistory, "error", lastAlarmState)
                /\ Become(t, ATask("as_initerr_log", "", 0, "start"))
                /\ UNCHANGED lastAlarmState
           ELSE /\ lastAlarmState' = r
                /\ stateHistory' = addStateHistoryAlarm(stateHistory, "initialized", r)
                /\ EnterCheckAndArm(t, "start")
    /\ UNCHANGED <<cfgVars, debugInfo, lastArmAttempt, clock, isRunning, pollInterval, intervals,
                   timeoutId, timers, nextId, lastMotionState, errorCount,
                   consecutiveSuccesses, lastSuccessfulPoll, eventLog, triggerCount,
                   calls, starts, callFailures, motionSeenDuring>>

\* initializeState resumes from logEvent('error'); start() enters checkAndArm
AlarmStartInitErrorLogged ==
    /\ kind = "alarm"
    /\ \E t \in InFlight :
        /\ t.pc = "as_initerr_log"
        /\ LogReturns
        /\ eventLog' = logEvent(eventLog, "error", "initialize")
        /\ EnterCheckAndArm(t, "start")
    /\ UNCHANGED <<cfgVars, debugInfo, alarmVars, isRunning, pollInterval, intervals, timeoutId,
                   timers, nextId, lastMotionState, stateHistory, errorCount,
                   consecutiveSuccesses, lastSuccessfulPoll, triggerCount, observed,
                   calls, starts, callFailures, motionSeenDuring>>

\* stop() called from outside
AlarmStop ==
    /\ kind = "alarm"
    /\ profile.stops
    /\ IF StopReturnsEarly THEN UNCHANGED vars
       ELSE /\ isRunning' = FALSE
            /\ intervals' = StopIntervals
            /\ pollInterval' = 0
            /\ Spawn(ATask("x_stop_log", "", 0, "stop"))
            /\ UNCHANGED <<cfgVars, debugInfo, alarmVars, timeoutId, timers, nextId, lastMotionState,
                           stateHistory, errorCount, consecutiveSuccesses,
                           lastSuccessfulPoll, eventLog, triggerCount, observed, calls,
                           starts, callFailures, motionSeenDuring>>

\* stop() resumes from logEvent('stopped'); a checkAndArm that called it returns
AlarmStopLogged ==
    /\ kind = "alarm"
    /\ \E t \in InFlight :
        /\ t.pc \in {"x_stop_log", "c_fatal_stop_log"}
        /\ LogReturns
        /\ eventLog' = logEvent(eventLog, "stopped", "stopped")
        /\ IF t.pc = "x_stop_log" THEN Finish(t) ELSE Return(t)
    /\ UNCHANGED <<cfgVars, debugInfo, alarmVars, isRunning, pollInterval, intervals, timeoutId,
                   timers, nextId, lastMotionState, stateHistory, errorCount,
                   consecutiveSuccesses, lastSuccessfulPoll, triggerCount, observed,
                   calls, starts, callFailures, motionSeenDuring>>

\* the interval fires: checkAndArm up to its first await
AlarmTick ==
    /\ kind = "alarm"
    /\ intervals # {}
    /\ PollsInFlight < profile.inflight
    /\ profile.serial => tasks = EmptyBag
    /\ errorCount >= maxErrors \/ MayRead
    /\ IF errorCount >= maxErrors
       THEN Spawn(ATask("c_fatal_log", "", clock, "tick"))
       ELSE Spawn(ATask("c_fetch", "", clock, "tick"))
    /\ UNCHANGED <<cfgVars, debugInfo, alarmVars, isRunning, pollInterval, intervals, timeoutId,
                   timers, nextId, lastMotionState, stateHistory, errorCount,
                   consecutiveSuccesses, lastSuccessfulPoll, eventLog, triggerCount,
                   observed, calls, starts, callFailures, motionSeenDuring>>

\* checkAndArm resumes from logEvent('error', stopped due to errors) and calls stop()
AlarmFatalLogged ==
    /\ kind = "alarm"
    /\ \E t \in InFlight :
        /\ t.pc = "c_fatal_log"
        /\ LogReturns
        /\ eventLog' = logEvent(eventLog, "error", "fatal")
        /\ IF StopReturnsEarly
           THEN /\ Return(t)
                /\ UNCHANGED <<isRunning, intervals, pollInterval>>
           ELSE /\ isRunning' = FALSE
                /\ intervals' = StopIntervals
                /\ pollInterval' = 0
                /\ Become(t, ATask("c_fatal_stop_log", "", t.k, t.by))
    /\ UNCHANGED <<cfgVars, debugInfo, alarmVars, timeoutId, timers, nextId, lastMotionState,
                   stateHistory, errorCount, consecutiveSuccesses, lastSuccessfulPoll,
                   triggerCount, observed, calls, starts, callFailures, motionSeenDuring>>

\* the failure is not counted
FetchErrorCount_nocount(ec) == ec

\* checkAndArm, line 906: this.errorCount++
FetchErrorCount(ec) == ec + 1

\* checkAndArm: getHAEntityState of the panel rejects (lines 905-919)
AlarmFetchFailed ==
    /\ kind = "alarm"
    /\ \E t \in InFlight :
        /\ t.pc = "c_fetch"
        /\ CanAnswer(Fail)
        /\ observed' = Append(observed, [src |-> "poll", val |-> Fail])
        /\ errorCount' = FetchErrorCount(errorCount)
        /\ stateHistory' = addStateHistoryAlarm(stateHistory, "fetch_error", lastAlarmState)
        /\ Become(t, ATask("c_fetcherr_log", "", t.k, t.by))
    /\ UNCHANGED <<cfgVars, debugInfo, alarmVars, isRunning, pollInterval, intervals, timeoutId,
                   timers, nextId, lastMotionState, consecutiveSuccesses,
                   lastSuccessfulPoll, eventLog, triggerCount, calls, starts,
                   callFailures, motionSeenDuring>>

\* checkAndArm resumes from the logEvent of a failed fetch and returns
AlarmFetchErrorLogged ==
    /\ kind = "alarm"
    /\ \E t \in InFlight :
        /\ t.pc = "c_fetcherr_log"
        /\ LogReturns
        /\ eventLog' = logEvent(eventLog, "error", "get_state")
        /\ Return(t)
    /\ UNCHANGED <<cfgVars, debugInfo, alarmVars, isRunning, pollInterval, intervals, timeoutId,
                   timers, nextId, lastMotionState, stateHistory, errorCount,
                   consecutiveSuccesses, lastSuccessfulPoll, triggerCount, observed,
                   calls, starts, callFailures, motionSeenDuring>>

\* checkAndArm, lines 939-991, for the fetched state v: the cooldown skip, the
\* entry into armAlarmWithValidation, or no action
Decide(t, v) ==
    /\ lastAlarmState' = v
    /\ IF shouldAttemptArm(isInArmingWindow(t.k), v) /\ CooldownActive(t.k)
       THEN /\ stateHistory' = addStateHistoryAlarm(stateHistory, "cooldown", v)
            /\ Return(t)
       ELSE IF shouldAttemptArm(isInArmingWindow(t.k), v)
       THEN /\ Become(t, ATask("a_prearm", v, t.k, t.by))
            /\ UNCHANGED stateHistory
       ELSE /\ stateHistory' = addStateHistoryAlarm(stateHistory, "no_action", v)
            /\ Become(t, ATask("c_trigger", v, t.k, t.by))

\* the first observation counts as a change too
StateChanged_nonull(last, currentState) == last # currentState

\* checkAndArm, line 925
StateChanged(last, currentState) == last # "null" /\ last # currentState

\* checkAndArm: getHAEntityState answers v (lines 902, 921-937)
AlarmFetched ==
    /\ kind = "alarm"
    /\ \E t \in InFlight : \E v \in AlarmVals :
        /\ t.pc = "c_fetch"
        /\ CanAnswer(v)
        /\ observed' = Append(observed, [src |-> "poll", val |-> v])
        /\ errorCount' = 0
        /\ IF StateChanged(lastAlarmState, v)
           THEN /\ stateHistory' = addStateHistoryAlarm(stateHistory, "state_change", lastAlarmState)
                /\ Become(t, ATask("c_change_log", v, t.k, t.by))
                /\ UNCHANGED lastAlarmState
           ELSE Decide(t, v)
    /\ UNCHANGED <<cfgVars, debugInfo, lastArmAttempt, clock, isRunning, pollInterval, intervals,
                   timeoutId, timers, nextId, lastMotionState, consecutiveSuccesses,
                   lastSuccessfulPoll, eventLog, triggerCount, calls, starts,
                   callFailures, motionSeenDuring>>

\* checkAndArm resumes from logEvent('triggered', state changed)
AlarmChangeLogged ==
    /\ kind = "alarm"
    /\ \E t \in InFlight :
        /\ t.pc = "c_change_log"
        /\ LogReturns
        /\ eventLog' = logEvent(eventLog, "triggered", "state_change")
        /\ Decide(t, t.cur)
    /\ UNCHANGED <<cfgVars, debugInfo, lastArmAttempt, clock, isRunning, pollInterval, intervals,
                   timeoutId, timers, nextId, lastMotionState, errorCount,
                   consecutiveSuccesses, lastSuccessfulPoll, triggerCount, observed,
                   calls, starts, callFailures, motionSeenDuring>>

\* the race guard lets every answered state through
PreArmOutcome_noguard(r) == IF r = Fail THEN "arm_error" ELSE "arming"

\* armAlarmWithValidation, lines 1019-1029: what the pre-arm read r leads to
PreArmOutcome(r) ==
    IF r = Fail THEN "arm_error"
    ELSE IF r # "disarmed" THEN "abort_arm"
    ELSE "arming"

\* armAlarmWithValidation resumes from its pre-arm read (lines 1019-1043, 1107-1124)
PreArmRead ==
    /\ kind = "alarm"
    /\ \E t \in InFlight : \E r \in AlarmVals \cup {Fail} :
        /\ t.pc = "a_prearm"
        /\ CanAnswer(r)
        /\ observed' = Append(observed, [src |-> "prearm", val |-> r])
        /\ CASE PreArmOutcome(r) = "arm_error" ->
                  /\ stateHistory' = addStateHistoryAlarm(stateHistory, "arm_error", lastAlarmState)
                  /\ Become(t, ATask("a_err_log", t.cur, t.k, t.by))
                  /\ UNCHANGED <<calls, lastArmAttempt>>
             [] PreArmOutcome(r) = "abort_arm" ->
                  /\ stateHistory' = addStateHistoryAlarm(stateHistory, "abort_arm", lastAlarmState)
                  /\ lastArmAttempt' = t.k
                  /\ Become(t, ATask("c_trigger", t.cur, t.k, t.by))
                  /\ UNCHANGED calls
             [] OTHER ->
                  /\ stateHistory' = addStateHistoryAlarm(stateHistory, "arming", lastAlarmState)
                  /\ calls' = Append(calls, ACall("alarm_arm_away", t))
                  /\ Become(t, ATask("a_arm", t.cur, t.k, t.by))
                  /\ UNCHANGED lastArmAttempt
    /\ UNCHANGED <<cfgVars, debugInfo, lastAlarmState, clock, isRunning, pollInterval, intervals,
                   timeoutId, timers, nextId, lastMotionState, errorCount,
                   consecutiveSuccesses, lastSuccessfulPoll, eventLog, triggerCount,
                   starts, callFailures, motionSeenDuring>>

\* armAlarmWithValidation resumes from callHAService('alarm_arm_away') (lines 1036-1099)
ArmReturned ==
    /\ kind = "alarm"
    /\ \E t \in InFlight : \E res \in CallResults :
        /\ t.pc = "a_arm"
        /\ CanReturn(res)
        /\ callFailures' = IF res = "ok" THEN callFailures ELSE callFailures + 1
        /\ CASE res = "ok" ->
                  /\ stateHistory' = addStateHistoryAlarm(stateHistory, "armed", lastAlarmState)
                  /\ Become(t, ATask("a_armed_log", t.cur, t.k, t.by))
             [] res # "ok" /\ Includes500(ErrorMessage(res)) ->
                  /\ Become(t, ATask("a_details", t.cur, t.k, t.by))
                  /\ UNCHANGED stateHistory
             [] OTHER ->
                  /\ stateHistory' = addStateHistoryAlarm(stateHistory, "arm_error", lastAlarmState)
                  /\ Become(t, ATask("a_err_log", t.cur, t.k, t.by))
        /\ calls' = Settled("alarm_arm_away", t, res)
    /\ UNCHANGED <<cfgVars, debugInfo, alarmVars, isRunning, pollInterval, intervals, timeoutId,
                   timers, nextId, lastMotionState, errorCount, consecutiveSuccesses,
                   lastSuccessfulPoll, eventLog, triggerCount, observed, starts,
                   motionSeenDuring>>

\* after an HTTP 500: the read of the panel's details returns, alarm_arm_home is called
\* (lines 1055-1078)
DetailsRead ==
    /\ kind = "alarm"
    /\ \E t \in InFlight : \E r \in AlarmVals \cup {Fail} :
        /\ t.pc = "a_details"
        /\ CanAnswer(r)
        /\ observed' = Append(observed, [src |-> "details", val |-> r])
        /\ stateHistory' = IF r = Fail THEN stateHistory
                           ELSE addStateHistoryAlarm(stateHistory, "service_error", lastAlarmState)
        /\ calls' = Append(calls, ACall("alarm_arm_home", t))
        /\ Become(t, ATask("a_fallback", t.cur, t.k, t.by))
    /\ UNCHANGED <<cfgVars, debugInfo, alarmVars, isRunning, pollInterval, intervals, timeoutId,
                   timers, nextId, lastMotionState, errorCount, consecutiveSuccesses,
                   lastSuccessfulPoll, eventLog, triggerCount, starts, callFailures,
                   motionSeenDuring>>

\* armAlarmWithValidation resumes from callHAService('alarm_arm_home') (lines 1073-1099)
FallbackReturned ==
    /\ kind = "alarm"
    /\ \E t \in InFlight : \E res \in CallResults :
        /\ t.pc = "a_fallback"
        /\ CanReturn(res)
        /\ callFailures' = IF res = "ok" THEN callFailures ELSE callFailures + 1
        /\ IF res = "ok"
           THEN /\ stateHistory' = addStateHistoryAlarm(
                        addStateHistoryAlarm(stateHistory, "fallback_arm", lastAlarmState),
                        "armed", lastAlarmState)
                /\ Become(t, ATask("a_armed_log", t.cur, t.k, t.by))
           ELSE /\ stateHistory' = addStateHistoryAlarm(stateHistory, "arm_error", lastAlarmState)
                /\ Become(t, ATask("a_err_log", t.cur, t.k, t.by))
        /\ calls' = Settled("alarm_arm_home", t, res)
    /\ UNCHANGED <<cfgVars, debugInfo, alarmVars, isRunning, pollInterval, intervals, timeoutId,
                   timers, nextId, lastMotionState, errorCount, consecutiveSuccesses,
                   lastSuccessfulPoll, eventLog, triggerCount, observed, starts,
                   motionSeenDuring>>

\* armAlarmWithValidation resumes from its last logEvent and returns; checkAndArm sets
\* lastArmAttempt and calls updateAutomationTriggerCount (lines 1095-1105, 1120-1124, 970, 994)
ArmLogged ==
    /\ kind = "alarm"
    /\ \E t \in InFlight :
        /\ t.pc \in {"a_armed_log", "a_err_log"}
        /\ LogReturns
        /\ IF t.pc = "a_armed_log"
           THEN /\ eventLog' = logEvent(eventLog, "action_executed", "armed")
                /\ timers' = timers \cup {nextId}
                /\ nextId' = nextId + 1
           ELSE /\ eventLog' = logEvent(eventLog, "error", "arm_failed")
                /\ UNCHANGED <<timers, nextId>>
        /\ lastArmAttempt' = t.k
        /\ Become(t, ATask("c_trigger", t.cur, t.k, t.by))
    /\ UNCHANGED <<cfgVars, debugInfo, lastAlarmState, clock, isRunning, pollInterval, intervals,
                   timeoutId, lastMotionState, stateHistory, errorCount,
                   consecutiveSuccesses, lastSuccessfulPoll, triggerCount, observed,
                   calls, starts, callFailures, motionSeenDuring>>

\* checkAndArm resumes from updateAutomationTriggerCount and returns
AlarmTriggerCounted ==
    /\ kind = "alarm"
    /\ \E t \in InFlight :
        /\ t.pc = "c_trigger"
        /\ triggerCount' = updateAutomationTriggerCount(triggerCount)
        /\ Return(t)
    /\ UNCHANGED <<cfgVars, debugInfo, alarmVars, isRunning, pollInterval, intervals, timeoutId,
                   timers, nextId, lastMotionState, stateHistory, errorCount,
                   consecutiveSuccesses, lastSuccessfulPoll, eventLog, observed, calls,
                   starts, callFailures, motionSeenDuring>>

\* the verification timer fires: verifyArmStatus up to its await
VerifyFires ==
    /\ kind = "alarm"
    /\ \E k \in timers :
        /\ timers' = timers \ {k}
        /\ Spawn(ATask("v_fetch", "", k, "timer"))
    /\ UNCHANGED <<cfgVars, debugInfo, alarmVars, isRunning, pollInterval, intervals, timeoutId,
                   nextId, lastMotionState, stateHistory, errorCount,
                   consecutiveSuccesses, lastSuccessfulPoll, eventLog, triggerCount,
                   observed, calls, starts, callFailures, motionSeenDuring>>

\* verifyArmStatus, lines 1135-1148: the history entry for the state read after arming
VerifyOutcome(r) ==
    IF r = Fail THEN "verify_error"
    ELSE IF r \in {"armed_away", "armed_home"} THEN "verify_success"
    ELSE IF r = "pending" THEN "verify_pending"
    ELSE "verify_failed"

\* verifyArmStatus resumes from its read and returns
VerifyRead ==
    /\ kind = "alarm"
    /\ \E t \in InFlight : \E r \in AlarmVals \cup {Fail} :
        /\ t.pc = "v_fetch"
        /\ CanAnswer(r)
        /\ observed' = Append(observed, [src |-> "verify", val |-> r])
        /\ stateHistory' = addStateHistoryAlarm(stateHistory, VerifyOutcome(r), lastAlarmState)
        /\ Finish(t)
    /\ UNCHANGED <<cfgVars, debugInfo, alarmVars, isRunning, pollInterval, intervals, timeoutId,
                   timers, nextId, lastMotionState, errorCount, consecutiveSuccesses,
                   lastSuccessfulPoll, eventLog, triggerCount, calls, starts,
                   callFailures, motionSeenDuring>>

NextAlarm ==
    \/ ClockTick
    \/ AlarmStart \/ AlarmStartInitialized \/ AlarmStartInitErrorLogged
    \/ AlarmStop \/ AlarmStopLogged
    \/ AlarmTick \/ AlarmFatalLogged \/ AlarmFetchFailed \/ AlarmFetchErrorLogged
    \/ AlarmFetched \/ AlarmChangeLogged
    \/ PreArmRead \/ ArmReturned \/ DetailsRead \/ FallbackReturned \/ ArmLogged
    \/ AlarmTriggerCounted
    \/ VerifyFires \/ VerifyRead

Next == NextMotion \/ NextAlarm

Spec == Init /\ [][Next]_vars

\* the first poll cycle of an alarm runner started at any minute of the day
InitWindow == InitFrom(ClockProfiles)
NextWindow ==
    \/ AlarmStart \/ AlarmStartInitialized
    \/ AlarmFetched \/ PreArmRead \/ AlarmTriggerCounted
    \/ StartLogged
SpecWindow == InitWindow /\ [][NextWindow]_vars

\* runs of failed polls, restarted after each fatal stop, that fill the ring
InitRing == InitFrom(RingProfiles)
NextRing ==
    \/ Start \/ StartInitialized \/ StartInitErrorLogged \/ StartLogged
    \/ PollTick \/ PollErrorLogged \/ PollFatalLogged \/ StopLogged
    \/ AlarmStart \/ AlarmStartInitialized \/ AlarmStartInitErrorLogged
    \/ AlarmTick \/ AlarmFetchFailed \/ AlarmFetchErrorLogged
    \/ AlarmFatalLogged \/ AlarmStopLogged
SpecRing == InitRing /\ [][NextRing]_vars

\* a promise of start(), stop() or a timer callback that settled as rejected;
\* one is kept for each origin
Rejected(origin) == [pc |-> "rejected", cur |-> origin, k |-> 0, by |-> ""]
Escapes(t, origin) ==
    tasks' = IF Rejected(origin) \in InFlight
             THEN tasks (-) One(t)
             ELSE (tasks (-) One(t)) (+) One(Rejected(origin))

\* the awaits of logEvent in start(), initializeState, stop() and in the
\* failure handling of a poll
StartLogPcs == {"s_initerr_log", "s_started_log", "as_initerr_log", "as_started_log"}
FailureLogPcs == {"p_fatal_log", "p_fatal_stop_log", "p_fetcherr_log", "p_general_log",
                  "c_fatal_log", "c_fatal_stop_log", "c_fetcherr_log", "c_general_log"}
\* the awaits of logEvent on the way of a poll that saw a transition, and of
\* the deferred callback
TransitionLogPcs == {"p_on_log_ok", "p_on_log_err", "p_countdown_log"}
DeferredLogPcs == {"d_off_log_ok", "d_off_log_err", "d_cancel_log", "d_err_log"}

\* logEvent rejects at one of these awaits.  In start(), initializeState's
\* catch block, stop() and the fatal branch no handler encloses the await and
\* the rejection leaves the function; the await of the fetch-failure handling
\* sits inside the outer try, whose catch block counts one more error and
\* logs again.  A rejection after a successful turn_on (line 530) enters the
\* catch block of the light action (535-544), whose own logEvent is caught
\* by the outer catch (624-635), as is the one of the countdown (614); the
\* poll then ends without reaching line 622.  In the deferred callback the
\* rejections at 573 and 592 go to its catch blocks (577, 601) and the one
\* at 605 leaves the callback before line 611.
LogRejected ==
    /\ ~LogReturns
    /\ \E t \in InFlight :
        /\ t.pc \in StartLogPcs \cup FailureLogPcs \cup TransitionLogPcs
                     \cup DeferredLogPcs \cup {"x_stop_log"}
        /\ CASE t.pc \in {"p_fetcherr_log", "p_on_log_err", "p_countdown_log"} ->
                  /\ errorCount' = errorCount + 1
                  /\ consecutiveSuccesses' = 0
                  /\ stateHistory' = addStateHistory(stateHistory, "error", "general_error")
                  /\ Become(t, Task("p_general_log", "", 0))
             [] t.pc = "p_on_log_ok" ->
                  /\ stateHistory' = addStateHistory(stateHistory, t.cur, "light_error")
                  /\ Become(t, Task("p_on_log_err", t.cur, 0))
                  /\ UNCHANGED <<errorCount, consecutiveSuccesses>>
             [] t.pc = "d_off_log_ok" ->
                  /\ stateHistory' = addStateHistory(stateHistory, "off", "light_error")
                  /\ Become(t, Task("d_off_log_err", t.cur, t.k))
                  /\ UNCHANGED <<errorCount, consecutiveSuccesses>>
             [] t.pc \in {"d_off_log_err", "d_cancel_log"} ->
                  /\ stateHistory' = addStateHistory(stateHistory, "unknown", "timeout_error")
                  /\ Become(t, Task("d_err_log", t.cur, t.k))
                  /\ UNCHANGED <<errorCount, consecutiveSuccesses>>
             [] t.pc = "c_fetcherr_log" ->
                  /\ errorCount' = errorCount + 1
                  /\ stateHistory' = addStateHistoryAlarm(stateHistory, "error", lastAlarmState)
                  /\ IF errorCount' = 1 \/ errorCount' % 3 = 0
                     THEN Become(t, ATask("c_general_log", "", t.k, t.by))
                     ELSE Return(t)
                  /\ UNCHANGED consecutiveSuccesses
             [] OTHER ->
                  /\ Escapes(t, IF t.pc \in StartLogPcs \/ t.by = "start" THEN "start"
                                ELSE IF t.pc = "x_stop_log" THEN "stop"
                                ELSE IF t.pc = "d_err_log" THEN "timer"
                                ELSE "poll")
                  /\ UNCHANGED <<errorCount, consecutiveSuccesses, stateHistory>>
    /\ UNCHANGED <<cfgVars, debugInfo, alarmVars, isRunning, pollInterval, intervals, timeoutId,
                   timers, nextId, lastMotionState, lastSuccessfulPoll, eventLog,
                   triggerCount, observed, calls, starts, callFailures, motionSeenDuring>>

\* both runners on failing reads with a failing event log sink
InitSink == InitFrom(SinkProfiles)
NextSink ==
    \/ Start \/ StartInitialized \/ Stop
    \/ PollTick \/ PollFetchFailed \/ PollFetched \/ TurnOnReturned
    \/ TimerFires \/ DeferredRequeried \/ TurnOffReturned
    \/ AlarmStart \/ AlarmStartInitialized \/ AlarmStop
    \/ AlarmTick \/ AlarmFetchFailed
    \/ LogRejected
SpecSink == InitSink /\ [][NextSink]_vars

\* the first n entries instead of the last n
Slice_first(h, n) == IF Len(h) > n THEN SubSeq(h, 1, n) ELSE h

\* Array.prototype.slice(-n): a new array of the last n entries
Slice(h, n) == IF Len(h) > n THEN SubSeq(h, Len(h) - n + 1, Len(h)) ELSE h

\* MotionLightAutomationRunner.getDebugInfo
getDebugInfo ==
    [taken |-> TRUE,
     isRunning |-> isRunning,
     lastMotionState |-> lastMotionState,
     hasTimeout |-> timeoutId # 0,
     errorCount |-> errorCount,
     consecutiveSuccesses |-> consecutiveSuccesses,
     lastSuccessfulPoll |-> lastSuccessfulPoll,
     stateHistory |-> Slice(stateHistory, MotionDebugHistory),
     pollIntervalActive |-> pollInterval # 0]

\* AlarmAutoArmRunner.getDebugInfo
getDebugInfoAlarm ==
    [taken |-> TRUE,
     isRunning |-> isRunning,
     lastAlarmState |-> lastAlarmState,
     inArmingWindow |-> isInArmingWindow(clock),
     errorCount |-> errorCount,
     stateHistory |-> Slice(stateHistory, AlarmDebugHistory),
     checkIntervalActive |-> pollInterval # 0,
     lastArmAttempt |-> lastArmAttempt,
     cooldownRemaining |-> IF lastArmAttempt = -1 THEN 0
                           ELSE IF ArmCooldown - (clock - lastArmAttempt) > 0
                           THEN ArmCooldown - (clock - lastArmAttempt)
                           ELSE 0]

\* a caller asks the runner for its debug snapshot and keeps what it returns
GetDebugInfo ==
    /\ debugInfo' = IF kind = "motion" THEN getDebugInfo ELSE getDebugInfoAlarm
    /\ UNCHANGED <<cfgVars, alarmVars, isRunning, pollInterval, intervals, timeoutId,
                   timers, nextId, lastMotionState, stateHistory, errorCount,
                   consecutiveSuccesses, lastSuccessfulPoll, tasks, eventLog,
                   triggerCount, observed, calls, starts, callFailures, motionSeenDuring>>

\* runs of failed polls with a caller that reads the debug snapshot
InitDebug == InitFrom(DebugProfiles)
NextDebug == NextRing \/ GetDebugInfo
SpecDebug == InitDebug /\ [][NextDebug]_vars

(***************************************************************************)
(* Properties.                                                              *)
(***************************************************************************)
\* the step in which a state read issued by src is answered with r
ReadAnswered(src, r) == observed' = Append(observed, [src |-> src, val |-> r])
\* the step in which task t returns
Returns(t) == tasks' = tasks (-) One(t)
CallsOf(svc) == {i \in DOMAIN calls : calls[i].svc = svc}
Invoked(svc) == Len(calls') = Len(calls) + 1 /\ calls'[Len(calls')].svc = svc
Actions(h) == [i \in DOMAIN h |-> h[i].action]
Quiescent == tasks = EmptyBag /\ timers = {}
NoTimerChange == timers' = timers /\ timeoutId' = timeoutId /\ nextId' = nextId

RECURSIVE Compress(_)
Compress(q) ==
    IF Len(q) <= 1 THEN q
    ELSE IF q[1] = q[2] THEN Compress(Tail(q))
    ELSE <<q[1]>> \o Compress(Tail(q))

RECURSIVE IsSubseq(_, _)
IsSubseq(a, b) ==
    IF a = <<>> THEN TRUE
    ELSE IF b = <<>> THEN FALSE
    ELSE IF Head(a) = Head(b) THEN IsSubseq(Tail(a), Tail(b))
    ELSE IsSubseq(a, Tail(b))

IsPrefix(a, b) == Len(a) <= Len(b) /\ SubSeq(b, 1, Len(a)) = a

ReadsBy(srcs) == SelectSeq(observed, LAMBDA e : e.src \in srcs)
Vals(q) == [i \in DOMAIN q |-> q[i].val]

\* C1: a successful poll that returns the stored lastMotionState invokes no
\* turn_on or turn_off, schedules no deferred timer, and returns at once.
C1_EdgeOnlyFiring ==
    [][\A r \in MotionVals :
         (ReadAnswered("poll", r) /\ r = lastMotionState)
         => /\ calls' = calls
            /\ NoTimerChange
            /\ Returns(Task("p_fetch", "", 0))]_vars

C1_Witness ==
    /\ Len(observed) = 3
    /\ observed[2] = [src |-> "poll", val |-> "on"]
    /\ observed[3] = [src |-> "poll", val |-> "on"]
    /\ lastMotionState = "on"
    /\ Len(calls) = 1
    /\ Quiescent

\* C2: the deferred callback invokes turn_off exactly when its re-query
\* answers "off", nothing else invokes turn_off, and when the re-query answers
\* another value the callback invokes nothing and leaves lastMotionState at
\* that value.
C2_DeferredRequery ==
    [][/\ \A r \in MotionVals \cup {Fail} :
            ReadAnswered("deferred", r)
            => IF r = "off" THEN Invoked("turn_off") ELSE calls' = calls
       /\ Invoked("turn_off") => ReadAnswered("deferred", "off")
       /\ \A t \in InFlight :
            (t.pc = "d_cancel_log" /\ Returns(t))
            => (lastMotionState' = t.cur /\ t.cur # "off" /\ calls' = calls)]_vars

C2_Witness ==
    /\ Len(observed) > 0
    /\ observed[Len(observed)] = [src |-> "deferred", val |-> "on"]
    /\ lastMotionState = "on"
    /\ CallsOf("turn_off") = {}
    /\ Quiescent

\* C3 (as claimed): once a poll has seen off -> on while the deferred check of
\* a countdown had not finished, no turn_off fires for that countdown, the
\* countdown is no longer pending, and countdown_cancelled is in the history.
C3_Claim ==
    \A k \in motionSeenDuring :
        /\ kind = "motion"
        /\ \A i \in CallsOf("turn_off") : calls[i].k # k
        /\ k \notin timers
        /\ \E i \in DOMAIN stateHistory : stateHistory[i].action = "countdown_cancelled"

NoFaults == FailUsed = 0 /\ callFailures = 0 /\ isRunning

\* C4 (as claimed): while the observed motion values are off.. on.. off.. and
\* nothing fails, at most one turn_on and one turn_off are invoked, and when
\* the sequence is complete and the runner is idle exactly one of each.
C4_Claim ==
    (kind = "motion" /\ NoFaults /\ IsPrefix(Compress(Vals(observed)), <<"off", "on", "off">>))
    => /\ Cardinality(CallsOf("turn_on")) <= 1
       /\ Cardinality(CallsOf("turn_off")) <= 1
       /\ (Compress(Vals(observed)) = <<"off", "on", "off">> /\ Quiescent
           /\ lastMotionState = "off")
          => (Cardinality(CallsOf("turn_on")) = 1 /\ Cardinality(CallsOf("turn_off")) = 1)

\* C5 (as claimed): when the polls returned off.. on.. off.., motion stayed off through the
\* countdown, every device call succeeded and the runner is idle again, the
\* history holds motion_detected, light_turned_on, countdown_started,
\* light_turned_off in that relative order.
C5_Scenario ==
    /\ kind = "motion"
    /\ NoFaults
    /\ Compress(Vals(ReadsBy({"poll"}))) = <<"off", "on", "off">>
    /\ \A i \in DOMAIN observed : observed[i].src = "deferred" => observed[i].val = "off"
    /\ Quiescent
    /\ lastMotionState = "off"

C5_Claim ==
    C5_Scenario
    => IsSubseq(<<"motion_detected", "light_turned_on", "countdown_started",
                  "light_turned_off">>, Actions(stateHistory))

\* C6: the read of initializeState, and a poll's read while lastMotionState is
\* unset, only store the value: no service call, no timer.
C6_FirstObservation ==
    [][\A r \in MotionVals :
         (ReadAnswered("init", r) \/ (ReadAnswered("poll", r) /\ lastMotionState = "null"))
         => /\ lastMotionState' = r
            /\ calls' = calls
            /\ NoTimerChange]_vars

C6_Witness ==
    /\ observed = <<[src |-> "init", val |-> Fail], [src |-> "poll", val |-> "on"]>>
    /\ lastMotionState = "on"
    /\ calls = <<>>
    /\ timers = {}

FatalEvents == {i \in DOMAIN eventLog : eventLog[i].msg = "fatal"}

\* C7 (as claimed): with the entities configured, so that only failed reads of
\* the device count as errors, a runner never counts an 11th failure, and each
\* run logs at most one terminal error event.
C7_Claim ==
    settings \in Configured
    => /\ errorCount <= maxErrors
       /\ Cardinality(FatalEvents) <= starts

\* C8: a failed poll adds one to errorCount and leaves lastMotionState, the
\* pending timer and the service calls as they were, to the end of the cycle.
C8_FailedPollFrame ==
    [][/\ (kind = "motion" /\ ReadAnswered("poll", Fail))
          => /\ errorCount' = errorCount + 1
             /\ lastMotionState' = lastMotionState
             /\ NoTimerChange
             /\ calls' = calls
       /\ \A t \in InFlight :
            (t.pc = "p_fetcherr_log" /\ Returns(t))
            => /\ errorCount' = errorCount
               /\ lastMotionState' = lastMotionState
               /\ NoTimerChange
               /\ calls' = calls]_vars

C8_Witness ==
    /\ Len(observed) > 0
    /\ observed[Len(observed)] = [src |-> "poll", val |-> Fail]
    /\ errorCount = 1
    /\ lastMotionState = "off"
    /\ timeoutId # 0
    /\ timeoutId \in timers
    /\ tasks = EmptyBag

\* the failed cycles since the last successful poll
RECURSIVE TrailingFailures(_)
TrailingFailures(q) ==
    IF q = <<>> THEN 0
    ELSE IF q[Len(q)].val \in {Fail, ConfigError}
    THEN 1 + TrailingFailures(SubSeq(q, 1, Len(q) - 1))
    ELSE 0

\* C9: a successful poll sets errorCount to 0 and adds one to
\* consecutiveSuccesses, and the runner takes the self-stop branch only when
\* the last maxErrors poll cycles all failed.
C9_SuccessResets ==
    [][/\ \A r \in MotionVals :
            ReadAnswered("poll", r)
            => (errorCount' = 0 /\ consecutiveSuccesses' = consecutiveSuccesses + 1)
       /\ tasks' = tasks (+) One(Task("p_fatal_log", "", 0))
            => TrailingFailures(ReadsBy({"poll"})) >= maxErrors]_vars

C9_Witness ==
    /\ Len(observed) >= 2
    /\ observed[Len(observed) - 1] = [src |-> "poll", val |-> Fail]
    /\ observed[Len(observed)] = [src |-> "poll", val |-> "off"]
    /\ errorCount = 0
    /\ consecutiveSuccesses = 1
    /\ tasks = EmptyBag

\* the program positions inside armAlarmWithValidation
ArmPcs == {"a_prearm", "a_arm", "a_details", "a_fallback", "a_armed_log", "a_err_log"}
ArmServices == {"alarm_arm_away", "alarm_arm_home"}

\* C10: every poll cycle of the alarm runner that is inside the arm sequence,
\* and every arm service call, belongs to a cycle whose `now` is inside the
\* arming window and whose fetched state is 'disarmed'; and a cycle whose
\* fetch answers another state, or whose `now` is outside the window, neither
\* enters the arm sequence nor invokes a service.
C10_ArmCondition ==
    [][kind = "alarm"
       => /\ \A t \in BagToSet(tasks') :
               t.pc \in ArmPcs => (isInArmingWindow(t.k) /\ t.cur = "disarmed")
          /\ \A i \in DOMAIN calls' :
               calls'[i].svc \in ArmServices
               => (isInArmingWindow(calls'[i].k) /\ calls'[i].cur = "disarmed")
          /\ \A t \in InFlight : \A v \in AlarmVals :
               (t.pc = "c_fetch" /\ CopiesIn(t, tasks') < CopiesIn(t, tasks)
                /\ ReadAnswered("poll", v)
                /\ (v # "disarmed" \/ ~isInArmingWindow(t.k)))
               => /\ calls' = calls
                  /\ \A u \in BagToSet(tasks') :
                       u.pc \in ArmPcs => CopiesIn(u, tasks') <= CopiesIn(u, tasks)]_vars

\* an arm action was invoked in the window for a disarmed panel, and later
\* cycles that read armed_away, or ran after the window closed, invoked nothing
C10_Witness ==
    /\ kind = "alarm"
    /\ Cardinality(CallsOf("alarm_arm_away")) = 1
    /\ \E i \in DOMAIN observed : observed[i] = [src |-> "poll", val |-> "disarmed"]
    /\ Len(observed) > 0
    /\ observed[Len(observed)].src = "poll"
    /\ \/ observed[Len(observed)].val = "armed_away"
       \/ observed[Len(observed)].val = "disarmed" /\ ~isInArmingWindow(clock)
    /\ tasks = EmptyBag

\* the poll cycles of the alarm runner that are inside the arm sequence
Arming == [t \in {u \in InFlight : u.pc \in ArmPcs} |-> tasks[t]]

\* C11 (as claimed): any two arm attempts of one runner start at least
\* ArmCooldown minutes apart: two cycles inside the arm sequence, two
\* alarm_arm_away calls, and a cycle inside the arm sequence after a recorded
\* attempt, are never closer than that.
C11_Claim ==
    kind = "alarm"
    => /\ \A t \in DOMAIN Arming : Arming[t] = 1
       /\ \A t, u \in DOMAIN Arming :
            t # u => (t.k - u.k >= ArmCooldown \/ u.k - t.k >= ArmCooldown)
       /\ \A i, j \in CallsOf("alarm_arm_away") :
            i < j => calls[j].k - calls[i].k >= ArmCooldown

\* the step in which a poll cycle enters armAlarmWithValidation as task t
EntersArm(t) == t.pc = "a_prearm" /\ CopiesIn(t, tasks') > CopiesIn(t, tasks)
\* the step in which the poll cycle t leaves armAlarmWithValidation
LeavesArm(t) ==
    /\ t.pc \in ArmPcs
    /\ CopiesIn(t, tasks') < CopiesIn(t, tasks)
    /\ \E u \in BagToSet(tasks') :
         u.pc = "c_trigger" /\ CopiesIn(u, tasks') > CopiesIn(u, tasks)

\* C12 (as claimed): lastArmAttempt is the cycle's `now` from the step in
\* which the cycle enters the arm sequence, before its first awaited device
\* call returns, and it is that `now` when the cycle leaves the sequence.
C12_Claim ==
    [][kind = "alarm"
       => /\ \A t \in BagToSet(tasks') : EntersArm(t) => lastArmAttempt' = t.k
          /\ \A t \in InFlight : LeavesArm(t) => lastArmAttempt' = t.k]_vars

PreArmOk == {i \in DOMAIN observed : observed[i] = [src |-> "prearm", val |-> "disarmed"]}

\* C13: when the pre-arm read of an arm sequence fails or answers a state other
\* than 'disarmed', that step invokes no service and the cycle leaves the
\* sequence without reaching the primary or the fallback call; every
\* alarm_arm_away call follows its own pre-arm read of 'disarmed'.
C13_RaceGuard ==
    [][kind = "alarm"
       => /\ \A t \in InFlight : \A r \in (AlarmVals \ {"disarmed"}) \cup {Fail} :
               (t.pc = "a_prearm" /\ CopiesIn(t, tasks') < CopiesIn(t, tasks)
                /\ ReadAnswered("prearm", r))
               => /\ calls' = calls
                  /\ \E u \in BagToSet(tasks') :
                       /\ u.pc \in {"c_trigger", "a_err_log"}
                       /\ u.k = t.k /\ u.by = t.by
                       /\ CopiesIn(u, tasks') > CopiesIn(u, tasks)
          /\ Invoked("alarm_arm_away") => ReadAnswered("prearm", "disarmed")
          /\ Cardinality(CallsOf("alarm_arm_away")) <= Cardinality(PreArmOk)]_vars

\* a sequence was aborted by the guard and one by a failed pre-arm read,
\* without any service call
C13_Witness ==
    /\ kind = "alarm"
    /\ \E i \in DOMAIN observed : observed[i].src = "prearm" /\ observed[i].val # "disarmed"
    /\ \E i \in DOMAIN stateHistory : stateHistory[i].action \in {"abort_arm", "arm_error"}
    /\ calls = <<>>
    /\ tasks = EmptyBag

\* the calls of service svc that the arm sequence of cycle (k, by) issued
SequenceCalls(svc, k, by) ==
    {i \in CallsOf(svc) : calls[i].k = k /\ calls[i].by = by}

C14_TimeoutGivesUp ==
    /\ kind = "alarm"
    /\ Len(calls) = 1
    /\ calls[1].res = "timeout"
    /\ tasks = EmptyBag

\* the step appends exactly the history entry with this action
Records(action) ==
    /\ Len(stateHistory') = Len(stateHistory) + 1
    /\ stateHistory'[Len(stateHistory')].action = action
    /\ SubSeq(stateHistory', 1, Len(stateHistory)) = stateHistory

\* the history entries that say the panel was armed
SuccessEntries(h) == {i \in DOMAIN h : h[i].action \in {"armed", "verify_success"}}
VerifiedArmed(q) ==
    {i \in DOMAIN q : q[i].src = "verify" /\ q[i].val \in {"armed_away", "armed_home"}}

\* C15 (as claimed): the verification read after the settle delay records one
\* entry: success for an armed state, pending for 'pending', failure for
\* 'disarmed'; and the history says that the panel was armed only once a
\* verification read has found it armed.
C15_Claim ==
    [][kind = "alarm"
       => /\ \A r \in {"armed_away", "armed_home"} :
               ReadAnswered("verify", r) => Records("verify_success")
          /\ ReadAnswered("verify", "pending") => Records("verify_pending")
          /\ ReadAnswered("verify", "disarmed") => Records("verify_failed")
          /\ SuccessEntries(stateHistory') # {} => VerifiedArmed(observed') # {}]_vars

\* the step in which the suspended callback t resumes
Resumes(t) == CopiesIn(t, tasks') < CopiesIn(t, tasks)
StateChangeLogged(log) == Append(log, [type |-> "triggered", msg |-> "state_change"])

\* C16 (as claimed): a poll cycle whose fetch answers a state different from
\* lastAlarmState records a state_change history entry in that step (looked at
\* only for cycles that run alone, after start() has returned).
C16_Claim ==
    [][kind = "alarm"
       => \A t \in InFlight : \A v \in AlarmVals :
            (/\ tasks = One(t)
             /\ t.pc = "c_fetch" /\ Resumes(t) /\ ReadAnswered("poll", v)
             /\ v # lastAlarmState)
            => Records("state_change")]_vars

\* C16 (amended): a poll cycle whose fetch answers a state different from a
\* stored, non-null lastAlarmState records state_change and issues the log
\* call before it decides about arming; when the log call returns the event is
\* in the log and lastAlarmState is the fetched state. A cycle that finds
\* lastAlarmState null or equal to the fetched state records no state_change
\* and stores the fetched state.
C16_StateChange ==
    [][kind = "alarm"
       => \A t \in InFlight :
            /\ \A v \in AlarmVals :
                 (t.pc = "c_fetch" /\ Resumes(t) /\ ReadAnswered("poll", v))
                 => IF lastAlarmState \notin {"null", v}
                    THEN /\ Records("state_change")
                         /\ tasks' = (tasks (-) One(t))
                                      (+) One(ATask("c_change_log", v, t.k, t.by))
                         /\ calls' = calls
                    ELSE /\ lastAlarmState' = v
                         /\ \A i \in DOMAIN stateHistory' :
                              i > Len(stateHistory)
                              => stateHistory'[i].action # "state_change"
            /\ (t.pc = "c_change_log" /\ Resumes(t))
               => /\ eventLog' = StateChangeLogged(eventLog)
                  /\ lastAlarmState' = t.cur]_vars

\* a change from disarmed to armed_away was recorded and logged, and no action
\* followed
C16_Witness ==
    /\ kind = "alarm"
    /\ \E i \in DOMAIN stateHistory :
         stateHistory[i] = [action |-> "state_change", alarmState |-> "disarmed"]
    /\ \E i \in DOMAIN eventLog : eventLog[i].msg = "state_change"
    /\ lastAlarmState = "armed_away"
    /\ stateHistory[Len(stateHistory)].action = "no_action"
    /\ tasks = EmptyBag

\* C17: for every minute m of the day, isInArmingWindow is true exactly when
\* m >= 1260 or m < 420, so true at 23:59, 00:00 and 06:59 and false at 07:00
\* and 20:59; the first poll cycle of a runner started at minute m enters the
\* arm sequence for a disarmed panel exactly in those minutes.
C17_WindowPredicate ==
    /\ clock \in 0 .. 1439
    /\ isInArmingWindow(clock) = (clock >= 1260 \/ clock < 420)
    /\ isInArmingWindow(23 * 60 + 59) /\ isInArmingWindow(0) /\ isInArmingWindow(6 * 60 + 59)
    /\ ~isInArmingWindow(7 * 60) /\ ~isInArmingWindow(20 * 60 + 59)
    /\ \A t \in InFlight :
         /\ t.pc \in ArmPcs => (t.k >= 1260 \/ t.k < 420)
         /\ t.pc = "c_trigger" => (420 <= t.k /\ t.k < 1260)

\* a runner started at 06:59 has called alarm_arm_away
C17_Witness ==
    /\ clock = 6 * 60 + 59
    /\ Cardinality(CallsOf("alarm_arm_away")) = 1

\* a runner started at 07:00 found the panel disarmed and did nothing
C17_ClosedAtSeven ==
    /\ clock = 7 * 60
    /\ stateHistory # <<>>
    /\ stateHistory[Len(stateHistory)].action = "no_action"
    /\ tasks = EmptyBag

\* C18: a failed fetch of an alarm poll cycle adds one to errorCount, records
\* fetch_error and invokes nothing; neither that step nor the return from the
\* error's log call changes lastAlarmState or lastArmAttempt, records
\* state_change, sets a timer or continues the cycle.
C18_FailedFetchSkips ==
    [][kind = "alarm"
       => \A t \in InFlight :
            /\ (t.pc = "c_fetch" /\ Resumes(t) /\ ReadAnswered("poll", Fail))
               => /\ errorCount' = errorCount + 1
                  /\ Records("fetch_error")
                  /\ tasks' = (tasks (-) One(t))
                               (+) One(ATask("c_fetcherr_log", "", t.k, t.by))
                  /\ UNCHANGED <<lastAlarmState, lastArmAttempt, calls, timers>>
            /\ (t.pc = "c_fetcherr_log" /\ Resumes(t))
               => /\ UNCHANGED <<errorCount, lastAlarmState, lastArmAttempt, calls,
                                 timers, stateHistory>>
                  /\ \A u \in BagToSet(tasks') :
                       CopiesIn(u, tasks') > CopiesIn(u, tasks) => u.pc = "as_started_log"]_vars

\* inside the window, with the panel disarmed, a cycle's fetch failed and the
\* cycle ended without an arm action
C18_Witness ==
    /\ kind = "alarm"
    /\ isInArmingWindow(clock)
    /\ lastAlarmState = "disarmed"
    /\ lastArmAttempt = -1
    /\ observed # <<>>
    /\ observed[Len(observed)] = [src |-> "poll", val |-> Fail]
    /\ stateHistory[Len(stateHistory)].action = "fetch_error"
    /\ errorCount = 1
    /\ calls = <<>>
    /\ tasks = EmptyBag

\* C19 (as claimed): the step in which stop() runs leaves no timer of the
\* runner scheduled: no poll interval, no deferred turn-off, no post-arm
\* verification.
C19_Claim ==
    [][(isRunning /\ ~isRunning') => (intervals' = {} /\ timers' = {})]_vars

\* the step is the answer to a read of initializeState
InitAnswered == \E r \in MotionVals \cup AlarmVals \cup {Fail} : ReadAnswered("init", r)

\* C20 (as claimed): while the runner is stopped, a poll, a deferred check or
\* an arm sequence that resumes from an external call invokes no device
\* action, leaves lastMotionState and lastAlarmState as they are and schedules
\* no timer.
C20_Claim ==
    [][(~isRunning /\ ~isRunning' /\ ~InitAnswered)
       => /\ Len(calls') = Len(calls)
          /\ lastMotionState' = lastMotionState
          /\ lastAlarmState' = lastAlarmState
          /\ timers' \subseteq timers]_vars

\* a callback the interval has just entered: checkMotionState or checkAndArm
\* up to its first await
PollEntryPcs == {"p_fetch", "p_fatal_log", "p_general_log", "c_fetch", "c_fatal_log"}
PollEntered(u) ==
    /\ u.pc \in PollEntryPcs
    /\ u.by \in {"", "tick"}
    /\ CopiesIn(u, tasks') > CopiesIn(u, tasks)

\* a poll callback, a deferred turn-off check, an arm sequence or start()'s
\* own initializeState/checkAndArm that is waiting for an awaited call
CallbackOutstanding(t) == t.pc \notin {"x_stop_log", "v_fetch"}

\* C21 (as claimed): callbacks run strictly one after the other: the interval
\* never enters a poll callback while an earlier poll callback, a deferred
\* turn-off check, an arm sequence or the initializeState/checkAndArm issued
\* by start() still has an awaited call outstanding.
C21_Claim ==
    [][\A u \in BagToSet(tasks') :
         PollEntered(u) => \A t \in InFlight : ~CallbackOutstanding(t)]_vars

\* C22: whatever the interleaving of start() and stop(), exactly one poll
\* interval is active while isRunning is true, the one pollInterval names,
\* and none while it is false.
C22_OneLoop ==
    /\ isRunning => intervals = {pollInterval} /\ pollInterval # 0
    /\ ~isRunning => intervals = {} /\ pollInterval = 0

\* stop() and a second start() were issued while the first start() was still
\* awaiting its initializeState: both reads are outstanding, one loop is live
C22_Witness ==
    /\ isRunning
    /\ starts = 2
    /\ \E t \in InFlight : t.pc \in {"s_init", "as_init"} /\ CopiesIn(t, tasks) = 2
    /\ Cardinality(intervals) = 1

\* 'stopped' events logged, and calls of stop() that are awaiting that log
StoppedEvents == {i \in DOMAIN eventLog : eventLog[i].type = "stopped"}
StopLogPcs == {"x_stop_log", "p_fatal_stop_log", "c_fatal_stop_log"}
StopsLogging ==
    BagCardinality([t \in {u \in InFlight : u.pc \in StopLogPcs} |-> tasks[t]])

\* C23: stop() on a runner that is stopped or was never started logs nothing:
\* however often stop() is called, from outside or by the fatal branch of a
\* poll, one 'stopped' event is logged (or is being logged) for each start()
\* that has been stopped, and none for the run that is still running.
C23_StopIdempotent ==
    Cardinality(StoppedEvents) + StopsLogging = starts - (IF isRunning THEN 1 ELSE 0)

\* two overlapping polls both took the fatal branch and both called stop():
\* the second call found the runner stopped, one 'stopped' event was logged
C23_Witness ==
    /\ ~isRunning
    /\ Cardinality(FatalEvents) = 2
    /\ Cardinality(StoppedEvents) = 1
    /\ tasks = EmptyBag

\* the ring after one more entry e: the oldest entry leaves a full ring
Evicting(h, cap, e) == IF Len(h) = cap THEN Append(Tail(h), e) ELSE Append(h, e)

\* the step meets a failure that the runner records in its history: a state
\* read of start() or of a poll rejects, or a poll finds an entity missing
FailureMet ==
    /\ Len(observed') = Len(observed) + 1
    /\ observed'[Len(observed')].val \in {Fail, ConfigError}

\* C24: the history ring never holds more than its capacity, 50 entries in
\* the motion runner and 100 in the alarm runner, and a step that writes an
\* entry appends it at the end, dropping the oldest entry when the ring is
\* full and nothing else: the ring is the most recent entries in the order
\* they were written.
C24_HistoryRing ==
    [][LET cap == IF kind = "motion" THEN 50 ELSE 100
       IN  /\ Len(stateHistory') <= cap
           /\ (stateHistory' # stateHistory \/ FailureMet)
              => /\ stateHistory' = Evicting(stateHistory, cap, stateHistory'[Len(stateHistory')])
                 /\ FailureMet => stateHistory'[Len(stateHistory')].action
                                     \in {"initialization_failed", "general_error",
                                          "error", "fetch_error"}]_vars

\* the ring is full and its oldest entry is no longer the first one written
C24_Witness ==
    /\ Len(stateHistory) = (IF kind = "motion" THEN 50 ELSE 100)
    /\ stateHistory[1].action # "initialization_failed"
    /\ stateHistory[1].action # "error"
    /\ starts = MaxStartsRing

\* C25 (as claimed): while the event log sink is failing and the state reads
\* fail, no promise of start(), stop() or a poll callback is rejected, and a
\* poll that takes the fatal branch after 10 errors leaves the runner stopped
\* with its poll interval cleared.
C25_Claim ==
    [][/\ \A u \in BagToSet(tasks') : u.pc # "rejected"
       /\ \A t \in InFlight :
            (t.pc \in {"p_fatal_log", "c_fatal_log"} /\ Resumes(t))
            => (~isRunning' /\ intervals' = {})]_vars

\* C25, the fatal stop alone: a poll that resumes in the fatal branch stops
\* the runner, whatever the event log answers.
C25_FatalStopClears ==
    [][\A t \in InFlight :
         (t.pc \in {"p_fatal_log", "c_fatal_log"} /\ Resumes(t))
         => (~isRunning' /\ intervals' = {})]_vars

\* C26: getDebugInfo is a pure read.  The step in which a caller receives a
\* snapshot changes no field of the runner, no timer and no call in flight;
\* the history in the snapshot is the last 10 (motion) or 15 (alarm) entries
\* of the ring, in order, or the whole ring when it is shorter; and the
\* snapshot is a copy: what the runner writes afterwards does not show in it.
C26_PureRead ==
    [][/\ debugInfo' # debugInfo
          => /\ UNCHANGED <<isRunning, pollInterval, intervals, timeoutId, timers,
                            lastMotionState, lastAlarmState, lastArmAttempt,
                            stateHistory, errorCount, consecutiveSuccesses,
                            lastSuccessfulPoll, tasks, eventLog, triggerCount, calls>>
             /\ LET h == debugInfo'.stateHistory
                    n == IF kind = "motion" THEN 10 ELSE 15
                    len == Len(stateHistory)
                IN  /\ Len(h) = (IF len > n THEN n ELSE len)
                    /\ \A i \in 1 .. Len(h) : h[i] = stateHistory[len - Len(h) + i]
       /\ stateHistory' # stateHistory => debugInfo' = debugInfo]_vars

\* a snapshot of the alarm runner holds 15 entries of a longer ring, and the
\* runner has written to the ring since
C26_Witness ==
    /\ kind = "alarm"
    /\ debugInfo.taken
    /\ Len(debugInfo.stateHistory) = 15
    /\ Len(stateHistory) > 15
    /\ debugInfo.stateHistory # Slice(stateHistory, 15)
    /\ debugInfo.errorCount # errorCount

\* the step is a start() that takes effect on a runner that ran before
Restarts == starts >= 1 /\ starts' = starts + 1

\* C27 (as claimed): no runner state survives a stop/start cycle.  A start()
\* after a stop() leaves nothing of the earlier run: the error counters are
\* zero, the history holds at most what this start() wrote, no deferred timer
\* is pending and no arm attempt is remembered; and when the query of that
\* start() fails, lastObservedState is null.
C27_Claim ==
    [][/\ Restarts
          => /\ errorCount' = 0
             /\ consecutiveSuccesses' = 0
             /\ Len(stateHistory') <= 1
             /\ stateHistory # <<>> => ~IsPrefix(stateHistory, stateHistory')
             /\ timeoutId' = 0
             /\ lastArmAttempt' = -1
       /\ (starts >= 2 /\ ReadAnswered("init", Fail))
          => (lastMotionState' = "null" /\ lastAlarmState' = "null")]_vars

\* C27, the observed state alone: when the query of a restart fails, the
\* state observed by the earlier run is not kept.
C27_FailedQueryGivesNull ==
    [][(starts >= 2 /\ ReadAnswered("init", Fail))
       => (lastMotionState' = "null" /\ lastAlarmState' = "null")]_vars

\* polls follow one another, start() has returned and no deferred check is
\* running: the runner is between two poll callbacks
BetweenPolls == \A t \in InFlight : t.pc \in {"p_fetch", "p_countdown_log"} /\ tasks[t] = 1

\* C28 (as claimed): the motion runner has at most one deferred turn-off timer
\* pending at any time, whatever values the motion entity reports (looked at
\* for polls that follow one another without overlapping).
C28_Claim ==
    (kind = "motion" /\ profile.inflight = 1 /\ NoFaults
     /\ observed # <<>> /\ observed[1].src = "init" /\ BetweenPolls)
    => Cardinality(timers) <= 1

\* the deferred turn-off callback, from its re-query to its last log call
DeferredPcs == {"d_requery", "d_turnoff", "d_off_log_ok", "d_off_log_err",
                "d_cancel_log", "d_err_log"}

\* nothing fails, polls do not overlap, and initializeState was answered
\* before the first poll
OrderlyRun ==
    /\ kind = "motion" /\ profile.inflight = 1 /\ NoFaults
    /\ observed # <<>> /\ observed[1].src = "init"

\* C29 (as claimed): every scheduled deferred timer is the one timeoutId
\* names, so that an off->on poll and stop() can cancel it, and a deferred
\* callback that completes does not clear the handle of a different timer
\* (looked at for polls that follow one another without overlapping).
C29_Claim ==
    [][OrderlyRun
       => /\ timers' \subseteq {timeoutId'}
          /\ \A t \in InFlight :
               (t.pc \in DeferredPcs /\ Returns(t) /\ timeoutId # 0 /\ timeoutId # t.k)
               => timeoutId' = timeoutId]_vars

\* C29, the completion alone: a deferred callback that completes leaves the
\* handle of a later-scheduled timer in place.
C29_CompletionKeepsHandle ==
    [][\A t \in InFlight :
         (OrderlyRun /\ t.pc \in DeferredPcs /\ Returns(t) /\ timeoutId # 0 /\ timeoutId # t.k)
         => timeoutId' = timeoutId]_vars

\* the step issues the logEvent call of a failed state fetch
FetchErrorLogIssued ==
    \E u \in BagToSet(tasks') :
        /\ u.pc \in {"p_fetcherr_log", "c_fetcherr_log"}
        /\ CopiesIn(u, tasks') > CopiesIn(u, tasks)

\* C30 (as claimed): in both runners every failed poll writes a history entry,
\* and an 'error' event is sent to the event log only for the 1st failure of
\* a run of consecutive failures and for every 5th (counts 1, 5, 10).
C30_Claim ==
    [][ReadAnswered("poll", Fail)
       => /\ Len(stateHistory') = Len(stateHistory) + 1
          /\ stateHistory'[Len(stateHistory')].action \in {"motion_state_error", "fetch_error"}
          /\ FetchErrorLogIssued <=> (errorCount' = 1 \/ errorCount' % 5 = 0)]_vars

\* C30 for the motion runner alone
C30_MotionEveryFifth ==
    [][(kind = "motion" /\ ReadAnswered("poll", Fail))
       => /\ Len(stateHistory') = Len(stateHistory) + 1
          /\ stateHistory'[Len(stateHistory')].action = "motion_state_error"
          /\ FetchErrorLogIssued <=> (errorCount' = 1 \/ errorCount' % 5 = 0)]_vars

\* the transitions a runner has detected, as its history records them
TransitionsDetected ==
    Cardinality({i \in DOMAIN stateHistory :
                   stateHistory[i].action \in {"motion_detected", "countdown_started",
                                                "state_change"}})

\* C31 (as claimed): when no callback is in flight, trigger_count has been
\* incremented once for every transition the runner detected (off->on and
\* on->off in the motion runner, every state change in the alarm runner) and
\* not by any poll that detected none.
C31_Claim == tasks = EmptyBag => triggerCount = TransitionsDetected

\* C31 for the motion runner alone
C31_MotionTransitions ==
    (kind = "motion" /\ tasks = EmptyBag) => triggerCount = TransitionsDetected

\* C31, what the motion runner counts: the polls that detected off->on
C31_MotionDetectedCounted ==
    (kind = "motion" /\ tasks = EmptyBag)
    => triggerCount = Cardinality({i \in DOMAIN stateHistory :
                                     stateHistory[i].action = "motion_detected"})

\* start() has been called and has returned
StartReturned ==
    /\ starts >= 1
    /\ \A t \in InFlight : t.pc \notin {"s_init", "s_initerr_log", "s_started_log"}

\* C32 (as claimed): with motion_entity or light_entity missing from the
\* settings, start() of the motion runner creates no poll interval, logs the
\* error once and leaves the runner not running.
C32_Claim ==
    (kind = "motion" /\ settings \in Unconfigured)
    => /\ intervals = {}
       /\ Cardinality({i \in DOMAIN eventLog : eventLog[i].type = "error"}) <= 1
       /\ StartReturned => ~isRunning

\* C32, after start() alone: the runner is not running once start() has
\* returned.
C32_NotRunningAfterStart ==
    (kind = "motion" /\ settings \in Unconfigured /\ StartReturned /\ errorCount < maxErrors)
    => ~isRunning

\* C32, the log alone: the configuration error is logged once.
C32_LoggedOnce ==
    (kind = "motion" /\ settings \in Unconfigured)
    => Cardinality({i \in DOMAIN eventLog : eventLog[i].type = "error"}) <= 1

\* the step leaves the runner running and its error counter as it was
KeepsRunning == UNCHANGED <<isRunning, errorCount, intervals, pollInterval>>

\* C33: a turn_on or turn_off that fails is recorded in the history as
\* light_error and logged as an 'error' event, and neither the failure, nor
\* its log, nor the rest of the poll stops the motion runner or counts as a
\* poll failure: isRunning and errorCount stay as they are.
C33_ActionFailureRecorded ==
    [][kind = "motion"
       => \A t \in InFlight :
            /\ (t.pc \in {"p_turnon", "d_turnoff"} /\ Resumes(t)
                /\ callFailures' = callFailures + 1)
               => /\ Records("light_error")
                  /\ \E u \in BagToSet(tasks') :
                       /\ u.pc \in {"p_on_log_err", "d_off_log_err"}
                       /\ CopiesIn(u, tasks') > CopiesIn(u, tasks)
                  /\ KeepsRunning
            /\ (t.pc \in {"p_on_log_err", "d_off_log_err"} /\ Resumes(t))
               => /\ Len(eventLog') = Len(eventLog) + 1
                  /\ eventLog'[Len(eventLog')].type = "error"
                  /\ KeepsRunning
            /\ (t.pc = "p_trigger" /\ Resumes(t)) => KeepsRunning]_vars

\* a turn_on failed, its poll has ended with the error logged, and the runner
\* is running with no error counted
C33_Witness ==
    /\ kind = "motion"
    /\ callFailures = 1
    /\ \E i \in DOMAIN eventLog : eventLog[i].msg = "turn_on_failed"
    /\ \E i \in DOMAIN stateHistory : stateHistory[i].action = "light_error"
    /\ tasks = EmptyBag
    /\ isRunning
    /\ errorCount = 0
    /\ lastMotionState = "on"


\* the last state read was the fetch of a poll that has ended, and it was
\* answered with a value; a later poll may be waiting for its own fetch
PollEndedOn(v) ==
    /\ kind = "motion"
    /\ \A t \in InFlight : t.pc \notin PollPcs \ {"p_fetch"}
    /\ observed # <<>>
    /\ observed[Len(observed)] = [src |-> "poll", val |-> v]

\* C34 (as claimed): at the end of a motion poll lastMotionState equals the
\* value the poll observed, also when the light action, the event log write
\* or the trigger-count update failed during the poll.
C34_Claim ==
    \A v \in MotionVals : PollEndedOn(v) => lastMotionState = v

\* C34, second half (as claimed): a poll that observes the value the poll
\* before it ended on invokes no light action and starts no countdown.
C34_NoRepeatedAction ==
    [][\A v \in MotionVals :
         (PollEndedOn(v) /\ ReadAnswered("poll", v))
         => calls' = calls /\ timers' = timers]_vars


\* C35: the motion runner invokes turn_on only at the fetch of a poll whose
\* stored value is exactly "off" and whose answer is exactly "on", schedules
\* a countdown only when a poll goes exactly from "on" to "off", and a poll
\* that sees any other change (to or from "unavailable") only stores the new
\* value: no call, no timer, no history entry.
C35_ExactEdges ==
    [][kind = "motion"
       => /\ Invoked("turn_on")
             => lastMotionState = "off" /\ ReadAnswered("poll", "on")
          /\ ~(timers' \subseteq timers)
             => lastMotionState = "on" /\ ReadAnswered("poll", "off")
          /\ \A r \in MotionVals :
               (/\ ReadAnswered("poll", r)
                /\ lastMotionState \notin {"null", r}
                /\ <<lastMotionState, r>> \notin {<<"off", "on">>, <<"on", "off">>})
               => /\ lastMotionState' = r
                  /\ calls' = calls
                  /\ NoTimerChange
                  /\ UNCHANGED <<stateHistory, eventLog, triggerCount>>
                  /\ Returns(Task("p_fetch", "", 0))]_vars

\* motion that showed as unavailable -> on: the light was never turned on
C35_Witness ==
    /\ kind = "motion"
    /\ Len(observed) = 3
    /\ observed[1] = [src |-> "init", val |-> "off"]
    /\ observed[2] = [src |-> "poll", val |-> "unavailable"]
    /\ observed[3] = [src |-> "poll", val |-> "on"]
    /\ lastMotionState = "on"
    /\ calls = <<>>
    /\ Quiescent


\* C36: when the re-query of the deferred callback fails, the callback invokes
\* no turn_off, records a timeout_error history entry, logs the error, clears
\* timeoutId, schedules no further timer, and leaves errorCount,
\* lastMotionState and isRunning as they are.
C36_FailedRequery ==
    [][kind = "motion"
       => \A t \in InFlight :
            /\ (t.pc = "d_requery" /\ ReadAnswered("deferred", Fail))
               => /\ calls' = calls
                  /\ Len(stateHistory') = Len(stateHistory) + 1
                  /\ stateHistory'[Len(stateHistory')] =
                       [motionState |-> "unknown", action |-> "timeout_error"]
                  /\ \E u \in BagToSet(tasks') :
                       u.pc = "d_err_log" /\ CopiesIn(u, tasks') > CopiesIn(u, tasks)
                  /\ NoTimerChange
                  /\ UNCHANGED <<errorCount, lastMotionState, isRunning, intervals>>
            /\ (t.pc = "d_err_log" /\ Resumes(t))
               => /\ calls' = calls
                  /\ timeoutId' = 0
                  /\ timers' = timers
                  /\ Len(eventLog') = Len(eventLog) + 1
                  /\ eventLog'[Len(eventLog')].type = "error"
                  /\ Returns(t)
                  /\ UNCHANGED <<errorCount, lastMotionState, isRunning, intervals,
                                 stateHistory>>]_vars

\* a countdown whose re-query failed has ended: no turn_off, no handle, the
\* runner still running on the stored "off"
C36_Witness ==
    /\ kind = "motion"
    /\ observed # <<>>
    /\ observed[Len(observed)] = [src |-> "deferred", val |-> Fail]
    /\ \E i \in DOMAIN stateHistory : stateHistory[i].action = "timeout_error"
    /\ CallsOf("turn_off") = {}
    /\ timeoutId = 0 /\ timers = {}
    /\ errorCount = 0
    /\ lastMotionState = "off"
    /\ isRunning
    /\ Quiescent


\* C37 (as claimed): in every reachable state of the motion runner errorCount
\* and consecutiveSuccesses are not both positive, and errorCount is at most
\* maxErrors.
C37_Claim ==
    kind = "motion"
    => /\ ~(errorCount > 0 /\ consecutiveSuccesses > 0)
       /\ errorCount <= maxErrors

\* C37, the first half alone: the two counters are never both positive
C37_NotBothPositive ==
    kind = "motion" => ~(errorCount > 0 /\ consecutiveSuccesses > 0)

\* C37, the bound alone, for polls that do not overlap
C37_BoundedWithoutOverlap ==
    (kind = "motion" /\ profile.inflight = 1) => errorCount <= maxErrors


\* the 'started' and 'stopped' events of the event log, in order
LifecycleEvents == SelectSeq(eventLog, LAMBDA e : e.type \in {"started", "stopped"})

\* C38 (as claimed): the 'started' and 'stopped' events of a runner alternate,
\* beginning with 'started', and no other event is logged before 'started'.
C38_Claim ==
    /\ \A i \in DOMAIN LifecycleEvents :
         LifecycleEvents[i].type = IF i % 2 = 1 THEN "started" ELSE "stopped"
    /\ eventLog # <<>> => eventLog[1].type = "started"

\* C38, the alternation alone
C38_Alternate ==
    \A i \in DOMAIN LifecycleEvents :
        LifecycleEvents[i].type = IF i % 2 = 1 THEN "started" ELSE "stopped"

====
